---- MODULE Spec2Model ----
(***************************************************************************)
(* BestPick: the selection store (reducer with linear undo/redo history),  *)
(* the addPhotos pipeline that feeds it, and the similarity grouper.       *)
(*                                                                         *)
(* Photo ids are naturals (the code builds unique strings), a group id is  *)
(* the pair <<id of the best photo, "group">> (the code appends "-group"), *)
(* embeddings are abstract classes with a fixed cosine-similarity table in *)
(* hundredths, dates are small naturals (milliseconds in the code).  A     *)
(* history entry keeps its selectedPhotos; its timestamp is never read.    *)
(* currentHistoryIndex is 0-based as in the code, so history[i] of the     *)
(* code is history[i + 1] here.                                            *)
(***************************************************************************)
EXTENDS Integers, Sequences, FiniteSets, TLC

\* ---- bounds of the model ----
NumCalls == 2
MaxFiles == 2
MaxHistory == 2
MaxDate == 2
StoreMaxPhotos == 3
StoreMaxHistory == 3
StoreMaxDate == 1
MaxGroupInput == 4
MaxPrompts == 2
NumCallers == 3

\* ---- program constants ----
DefaultThreshold == 70

Calls == 1..NumCalls
Dates == 1..MaxDate
StoreDates == 1..StoreMaxDate
NoEmbedding == 0
EmptyEmbedding == -1
Embeddings == {1, 2, 3}
GhostId == 0
GhostGroupId == <<GhostId, "ghost">>

\* ---- helpers on sequences (Array.prototype.*) ----
Range(s) == {s[i] : i \in 1..Len(s)}

Includes(s, x) == \E i \in 1..Len(s) : s[i] = x

IndexOf(s, x) ==
  IF Includes(s, x) THEN CHOOSE i \in 1..Len(s) : s[i] = x /\ \A j \in 1..(i - 1) : s[j] # x
  ELSE -1

Slice(s, n) == SubSeq(s, 1, IF n < Len(s) THEN n ELSE Len(s))

Splice1(s, i) == SubSeq(s, 1, i - 1) \o SubSeq(s, i + 1, Len(s))

\* Mutant: Array.from(new Set(xs)) replaced by xs itself.
Dedupe_KeepsRepeats(s) == s

RECURSIVE Dedupe(_)
Dedupe(s) ==
  IF s = <<>> THEN <<>>
  ELSE LET r == Dedupe(SubSeq(s, 1, Len(s) - 1))
           x == s[Len(s)]
       IN IF Includes(r, x) THEN r ELSE Append(r, x)

Ids(ps) == [i \in 1..Len(ps) |-> ps[i].id]

\* ---- cosine similarity of two embedding classes, in hundredths ----
CosSim(a, b) ==
  IF a = b THEN 100
  ELSE IF {a, b} = {1, 2} THEN 80
  ELSE IF {a, b} = {2, 3} THEN 75
  ELSE 50

\* ---- quality score from raw = avgPos - avgNeg, raw in thousandths ----
Clamp(x, lo, hi) == IF x < lo THEN lo ELSE IF x > hi THEN hi ELSE x

Score(raw) == Clamp((15 * raw + 1010) \div 20, 0, 100)

RawOf(e) == IF e = 1 THEN 20 ELSE IF e = 2 THEN 40 ELSE 20

\* ---- the scoring of analyzeImage, on similarities in hundredths ----
\* The loop that adds cos_sim(embedding, prompt i) over the prompt embeddings.
RECURSIVE TotalSimilarity(_, _)
TotalSimilarity(sims, n) ==
  IF n = 0 THEN 0 ELSE TotalSimilarity(sims, n - 1) + sims[n]

\* Math.floor of the rational num / den, den > 0.
MathRound_Truncates(num, den) == num \div den

\* Math.round of the rational num / den, den > 0: the integer nearest to it,
\* a half going up.
MathRound(num, den) == (2 * num + den) \div (2 * den)

Quality_NoUpperClamp(positive, negative) ==
  LET nPos == Len(positive)
      nNeg == Len(negative)
      rawNum == TotalSimilarity(positive, nPos) * nNeg
                  - TotalSimilarity(negative, nNeg) * nPos
      rawDen == nPos * nNeg
  IN  IF MathRound(15 * rawNum + 100 * rawDen, 2 * rawDen) < 0 THEN 0
      ELSE MathRound(15 * rawNum + 100 * rawDen, 2 * rawDen)

\* rawScore = avgPositiveSimilarity - avgNegativeSimilarity is the rational
\* rawNum / (100 * rawDen); ((rawScore * 15 + 1) / 2) * 100 is then
\* (15 * rawNum + 100 * rawDen) / (2 * rawDen), kept exact.
Quality(positive, negative) ==
  LET nPos == Len(positive)
      nNeg == Len(negative)
      rawNum == TotalSimilarity(positive, nPos) * nNeg
                  - TotalSimilarity(negative, nNeg) * nPos
      rawDen == nPos * nNeg
  IN  Clamp(MathRound(15 * rawNum + 100 * rawDen, 2 * rawDen), 0, 100)

\* The quality analyzeImage returns: scored only when an embedding with
\* elements and the prompt embeddings are given; 0 when the scoring throws.
analyzeImageQuality(embedding, promptEmbeddings, positive, negative, scoringThrows) ==
  IF embedding # NoEmbedding /\ embedding # EmptyEmbedding /\ promptEmbeddings # "null"
  THEN IF scoringThrows THEN 0 ELSE Quality(positive, negative)
  ELSE 0

\* ---- stable sorts (Array.prototype.sort is stable) ----
\* keys[i] is the sort key of s[i]; descending, equal keys keep their order.
Rank(keys, i) ==
  1 + Cardinality({j \in 1..Len(keys) : keys[j] > keys[i] \/ (keys[j] = keys[i] /\ j < i)})

SortDesc(s, keys) ==
  [r \in 1..Len(s) |-> s[CHOOSE i \in 1..Len(s) : Rank(keys, i) = r]]

QualityKeys(ps) == [i \in 1..Len(ps) |-> ps[i].quality]
DateCreatedKeys(ps) == [i \in 1..Len(ps) |-> ps[i].dateCreated]
GroupDateKeys(gs) == [i \in 1..Len(gs) |-> gs[i].date]

\* p.embedding && p.embedding.length > 0
HasEmbedding(p) == p.embedding # NoEmbedding /\ p.embedding # EmptyEmbedding

\* What groupSimilarPhotos and the reducer read of a photo object held in a
\* group or in uniquePhotos; the stale copy of `selected` it carries is never read.
PhotoData(p) == [id |-> p.id, embedding |-> p.embedding, quality |-> p.quality,
                 dateCreated |-> p.dateCreated]

GroupId(p) == <<p.id, "group">>

\* Mutant: the running minimum is never lowered (minSimilarityInGroup stays 1.0).
Min_KeepsFirst(a, b) == a

Min(a, b) == IF a < b THEN a ELSE b

\* Mutant: a candidate joins the group only when its similarity is above the
\* threshold, not when it equals it.
RECURSIVE InnerLoop_StrictlyAbove(_, _, _, _, _)
InnerLoop_StrictlyAbove(withEmb, j, photoA, threshold, st) ==
  IF j > Len(withEmb) THEN st
  ELSE
    LET photoB == withEmb[j]
        similarity == CosSim(photoA.embedding, photoB.embedding)
    IN IF photoB.id \in st.processed THEN InnerLoop_StrictlyAbove(withEmb, j + 1, photoA, threshold, st)
       ELSE IF similarity > threshold
       THEN InnerLoop_StrictlyAbove(withEmb, j + 1, photoA, threshold,
                      [currentGroupPhotos |-> Append(st.currentGroupPhotos, photoB),
                       minSimilarityInGroup |-> Min(st.minSimilarityInGroup, similarity),
                       processed |-> st.processed \cup {photoB.id},
                       compared |-> st.compared \cup {photoA.id, photoB.id}])
       ELSE InnerLoop_StrictlyAbove(withEmb, j + 1, photoA, threshold,
                      [st EXCEPT !.compared = st.compared \cup {photoA.id, photoB.id}])

\* Mutant: a candidate is compared with the photo last added to the group
\* instead of the anchor (chaining through members).
RECURSIVE InnerLoop_Chained(_, _, _, _, _)
InnerLoop_Chained(withEmb, j, photoA, threshold, st) ==
  IF j > Len(withEmb) THEN st
  ELSE
    LET photoB == withEmb[j]
        last == st.currentGroupPhotos[Len(st.currentGroupPhotos)]
        similarity == CosSim(last.embedding, photoB.embedding)
    IN IF photoB.id \in st.processed THEN InnerLoop_Chained(withEmb, j + 1, photoA, threshold, st)
       ELSE IF similarity >= threshold
       THEN InnerLoop_Chained(withEmb, j + 1, photoA, threshold,
                      [currentGroupPhotos |-> Append(st.currentGroupPhotos, photoB),
                       minSimilarityInGroup |-> Min(st.minSimilarityInGroup, similarity),
                       processed |-> st.processed \cup {photoB.id},
                       compared |-> st.compared \cup {last.id, photoB.id}])
       ELSE InnerLoop_Chained(withEmb, j + 1, photoA, threshold,
                      [st EXCEPT !.compared = st.compared \cup {last.id, photoB.id}])

\* Mutant: the scan for members of photoA's group stops at the first photo
\* that is not similar enough.
RECURSIVE InnerLoop_StopsAtFirstMiss(_, _, _, _, _)
InnerLoop_StopsAtFirstMiss(withEmb, j, photoA, threshold, st) ==
  IF j > Len(withEmb) THEN st
  ELSE
    LET photoB == withEmb[j]
        similarity == CosSim(photoA.embedding, photoB.embedding)
    IN IF photoB.id \in st.processed
       THEN InnerLoop_StopsAtFirstMiss(withEmb, j + 1, photoA, threshold, st)
       ELSE IF similarity >= threshold
       THEN InnerLoop_StopsAtFirstMiss(withEmb, j + 1, photoA, threshold,
                      [currentGroupPhotos |-> Append(st.currentGroupPhotos, photoB),
                       minSimilarityInGroup |-> Min(st.minSimilarityInGroup, similarity),
                       processed |-> st.processed \cup {photoB.id},
                       compared |-> st.compared \cup {photoA.id, photoB.id}])
       ELSE [st EXCEPT !.compared = st.compared \cup {photoA.id, photoB.id}]

\* Mutant: the scan for members of photoA's group stops after the first member.
RECURSIVE InnerLoop_TakesOneMember(_, _, _, _, _)
InnerLoop_TakesOneMember(withEmb, j, photoA, threshold, st) ==
  IF j > Len(withEmb) THEN st
  ELSE
    LET photoB == withEmb[j]
        similarity == CosSim(photoA.embedding, photoB.embedding)
    IN IF photoB.id \in st.processed
       THEN InnerLoop_TakesOneMember(withEmb, j + 1, photoA, threshold, st)
       ELSE IF similarity >= threshold
       THEN [currentGroupPhotos |-> Append(st.currentGroupPhotos, photoB),
             minSimilarityInGroup |-> Min(st.minSimilarityInGroup, similarity),
             processed |-> st.processed \cup {photoB.id},
             compared |-> st.compared \cup {photoA.id, photoB.id}]
       ELSE InnerLoop_TakesOneMember(withEmb, j + 1, photoA, threshold,
                      [st EXCEPT !.compared = st.compared \cup {photoA.id, photoB.id}])

\* The inner loop (for j = i + 1 ...) of groupSimilarPhotos for anchor photoA;
\* st carries currentGroupPhotos, minSimilarityInGroup, the processed ids and
\* the ids of the photos whose embeddings were handed to cos_sim.
RECURSIVE InnerLoop(_, _, _, _, _)
InnerLoop(withEmb, j, photoA, threshold, st) ==
  IF j > Len(withEmb) THEN st
  ELSE
    LET photoB == withEmb[j]
        similarity == CosSim(photoA.embedding, photoB.embedding)
    IN IF photoB.id \in st.processed THEN InnerLoop(withEmb, j + 1, photoA, threshold, st)
       ELSE IF similarity >= threshold
       THEN InnerLoop(withEmb, j + 1, photoA, threshold,
                      [currentGroupPhotos |-> Append(st.currentGroupPhotos, photoB),
                       minSimilarityInGroup |-> Min(st.minSimilarityInGroup, similarity),
                       processed |-> st.processed \cup {photoB.id},
                       compared |-> st.compared \cup {photoA.id, photoB.id}])
       ELSE InnerLoop(withEmb, j + 1, photoA, threshold,
                      [st EXCEPT !.compared = st.compared \cup {photoA.id, photoB.id}])

\* Mutant: the group keeps its photos in the order they were collected.
MakeGroup_Unsorted(currentGroupPhotos, minSimilarityInGroup) ==
  [id |-> GroupId(currentGroupPhotos[1]),
   date |-> currentGroupPhotos[1].dateCreated,
   photos |-> currentGroupPhotos,
   similarity |-> minSimilarityInGroup]

MakeGroup(currentGroupPhotos, minSimilarityInGroup) ==
  LET sortedPhotos == SortDesc(currentGroupPhotos, QualityKeys(currentGroupPhotos))
  IN [id |-> GroupId(sortedPhotos[1]),
      date |-> sortedPhotos[1].dateCreated,
      photos |-> sortedPhotos,
      similarity |-> minSimilarityInGroup]

\* The outer loop (for i = 0 ...) of groupSimilarPhotos from anchor index i on;
\* acc carries groups, uniquePhotos, the processed ids and the compared ids.
RECURSIVE OuterLoop(_, _, _, _)
OuterLoop(withEmb, i, threshold, acc) ==
  IF i > Len(withEmb) THEN acc
  ELSE
    LET photoA == withEmb[i]
    IN IF photoA.id \in acc.processed THEN OuterLoop(withEmb, i + 1, threshold, acc)
       ELSE
         LET st == InnerLoop(withEmb, i + 1, photoA, threshold,
                             [currentGroupPhotos |-> <<photoA>>,
                              minSimilarityInGroup |-> 100,
                              processed |-> acc.processed \cup {photoA.id},
                              compared |-> acc.compared])
         IN IF Len(st.currentGroupPhotos) > 1
            THEN OuterLoop(withEmb, i + 1, threshold,
                           [groups |-> Append(acc.groups,
                                              MakeGroup(st.currentGroupPhotos, st.minSimilarityInGroup)),
                            uniquePhotos |-> acc.uniquePhotos,
                            processed |-> st.processed,
                            compared |-> st.compared])
            ELSE OuterLoop(withEmb, i + 1, threshold,
                           [groups |-> acc.groups,
                            uniquePhotos |-> Append(acc.uniquePhotos, photoA),
                            processed |-> st.processed,
                            compared |-> st.compared])

\* The ids of the photos whose embeddings groupSimilarPhotos hands to cos_sim.
ComparedIds(photos, similarityThreshold) ==
  LET photosWithEmbeddings == SelectSeq(photos, HasEmbedding)
  IN IF Len(photosWithEmbeddings) = 0 THEN {}
     ELSE OuterLoop(photosWithEmbeddings, 1, similarityThreshold,
                    [groups |-> <<>>, uniquePhotos |-> <<>>, processed |-> {},
                     compared |-> {}]).compared

\* Mutant: the final pass adds the photos whose embedding is undefined but not
\* those whose embedding is the empty vector.
groupSimilarPhotos_DropsEmptyVectors(photos, similarityThreshold) ==
  LET photosWithEmbeddings == SelectSeq(photos, HasEmbedding)
      NoEmb(p) == ~HasEmbedding(p)
      photosWithoutEmbeddings == SelectSeq(photos, NoEmb)
  IN IF Len(photosWithEmbeddings) = 0
     THEN [groups |-> <<>>, uniquePhotos |-> SortDesc(photosWithoutEmbeddings, DateCreatedKeys(photosWithoutEmbeddings))]
     ELSE
       LET r == OuterLoop(photosWithEmbeddings, 1, similarityThreshold,
                          [groups |-> <<>>, uniquePhotos |-> <<>>, processed |-> {},
                           compared |-> {}])
           Missing(p) == p.embedding = NoEmbedding /\ ~Includes(Ids(r.uniquePhotos), p.id)
           withRest == r.uniquePhotos \o SelectSeq(photos, Missing)
       IN [groups |-> SortDesc(r.groups, GroupDateKeys(r.groups)),
           uniquePhotos |-> SortDesc(withRest, DateCreatedKeys(withRest))]

\* Mutant: the groups are returned in the order they were formed.
groupSimilarPhotos_GroupsUnsorted(photos, similarityThreshold) ==
  LET photosWithEmbeddings == SelectSeq(photos, HasEmbedding)
      NoEmb(p) == ~HasEmbedding(p)
      photosWithoutEmbeddings == SelectSeq(photos, NoEmb)
  IN IF Len(photosWithEmbeddings) = 0
     THEN [groups |-> <<>>, uniquePhotos |-> SortDesc(photosWithoutEmbeddings, DateCreatedKeys(photosWithoutEmbeddings))]
     ELSE
       LET r == OuterLoop(photosWithEmbeddings, 1, similarityThreshold,
                          [groups |-> <<>>, uniquePhotos |-> <<>>, processed |-> {},
                           compared |-> {}])
           Missing(p) == ~HasEmbedding(p) /\ ~Includes(Ids(r.uniquePhotos), p.id)
           withRest == r.uniquePhotos \o SelectSeq(photos, Missing)
       IN [groups |-> r.groups,
           uniquePhotos |-> SortDesc(withRest, DateCreatedKeys(withRest))]

groupSimilarPhotos(photos, similarityThreshold) ==
  LET photosWithEmbeddings == SelectSeq(photos, HasEmbedding)
      NoEmb(p) == ~HasEmbedding(p)
      photosWithoutEmbeddings == SelectSeq(photos, NoEmb)
  IN IF Len(photosWithEmbeddings) = 0
     THEN [groups |-> <<>>, uniquePhotos |-> SortDesc(photosWithoutEmbeddings, DateCreatedKeys(photosWithoutEmbeddings))]
     ELSE
       LET r == OuterLoop(photosWithEmbeddings, 1, similarityThreshold,
                          [groups |-> <<>>, uniquePhotos |-> <<>>, processed |-> {},
                           compared |-> {}])
           Missing(p) == ~HasEmbedding(p) /\ ~Includes(Ids(r.uniquePhotos), p.id)
           withRest == r.uniquePhotos \o SelectSeq(photos, Missing)
       IN [groups |-> SortDesc(r.groups, GroupDateKeys(r.groups)),
           uniquePhotos |-> SortDesc(withRest, DateCreatedKeys(withRest))]

\* ---- the reducer (AppState x PhotoAction -> AppState) ----
initialState ==
  [photos |-> <<>>, groups |-> <<>>, selectedPhotos |-> <<>>, uniquePhotos |-> <<>>,
   history |-> <<>>, currentHistoryIndex |-> -1]

HistoryEntry(sel) == [selectedPhotos |-> sel]

\* Mutant: the new entry is appended without dropping the entries after the pointer.
PushHistory_NoTruncate(s, sel) == Append(s.history, HistoryEntry(sel))

\* [...state.history.slice(0, state.currentHistoryIndex + 1), entry]
PushHistory(s, sel) == Append(Slice(s.history, s.currentHistoryIndex + 1), HistoryEntry(sel))

SetSelected(p, b) == [p EXCEPT !.selected = b]

AutoSelect(groups, uniquePhotos) ==
  Ids(uniquePhotos) \o [i \in 1..Len(groups) |-> groups[i].photos[1].id]

\* Mutant: the Ingest keeps what was selected before and adds the auto-selection.
ReduceAdd_KeepsManualSelection(s, photo, groups, uniquePhotos) ==
  LET updatedPhotos == Append(s.photos, photo)
      autoSelectedPhotos == Dedupe(s.selectedPhotos \o AutoSelect(groups, uniquePhotos))
      flagged == [i \in 1..Len(updatedPhotos) |->
                    SetSelected(updatedPhotos[i], Includes(autoSelectedPhotos, updatedPhotos[i].id))]
      first == Len(s.photos) = 0
      history == IF first THEN <<HistoryEntry(autoSelectedPhotos)>>
                 ELSE PushHistory(s, autoSelectedPhotos)
  IN [photos |-> flagged, groups |-> groups, uniquePhotos |-> uniquePhotos,
      selectedPhotos |-> autoSelectedPhotos,
      history |-> history,
      currentHistoryIndex |-> IF first THEN 0 ELSE Len(history) - 1]

\* Mutant: the Ingest appends no history entry when the selection did not change.
ReduceAdd_SkipsUnchangedSelection(s, photo, groups, uniquePhotos) ==
  LET updatedPhotos == Append(s.photos, photo)
      autoSelectedPhotos == AutoSelect(groups, uniquePhotos)
      flagged == [i \in 1..Len(updatedPhotos) |->
                    SetSelected(updatedPhotos[i], Includes(autoSelectedPhotos, updatedPhotos[i].id))]
      first == Len(s.photos) = 0
      same == autoSelectedPhotos = s.selectedPhotos
      history == IF first THEN <<HistoryEntry(autoSelectedPhotos)>>
                 ELSE IF same THEN s.history
                 ELSE PushHistory(s, autoSelectedPhotos)
  IN [photos |-> flagged, groups |-> groups, uniquePhotos |-> uniquePhotos,
      selectedPhotos |-> autoSelectedPhotos,
      history |-> history,
      currentHistoryIndex |-> IF first THEN 0
                              ELSE IF same THEN s.currentHistoryIndex
                              ELSE Len(history) - 1]

\* Mutant: the Ingest puts the new photo in front of the photos already present.
ReduceAdd_Prepends(s, photo, groups, uniquePhotos) ==
  LET updatedPhotos == <<photo>> \o s.photos
      autoSelectedPhotos == AutoSelect(groups, uniquePhotos)
      flagged == [i \in 1..Len(updatedPhotos) |->
                    SetSelected(updatedPhotos[i], Includes(autoSelectedPhotos, updatedPhotos[i].id))]
      first == Len(s.photos) = 0
      history == IF first THEN <<HistoryEntry(autoSelectedPhotos)>>
                 ELSE PushHistory(s, autoSelectedPhotos)
  IN [photos |-> flagged, groups |-> groups, uniquePhotos |-> uniquePhotos,
      selectedPhotos |-> autoSelectedPhotos,
      history |-> history,
      currentHistoryIndex |-> IF first THEN 0 ELSE Len(history) - 1]

ReduceAdd(s, photo, groups, uniquePhotos) ==
  LET updatedPhotos == Append(s.photos, photo)
      autoSelectedPhotos == AutoSelect(groups, uniquePhotos)
      flagged == [i \in 1..Len(updatedPhotos) |->
                    SetSelected(updatedPhotos[i], Includes(autoSelectedPhotos, updatedPhotos[i].id))]
      first == Len(s.photos) = 0
      history == IF first THEN <<HistoryEntry(autoSelectedPhotos)>>
                 ELSE PushHistory(s, autoSelectedPhotos)
  IN [photos |-> flagged, groups |-> groups, uniquePhotos |-> uniquePhotos,
      selectedPhotos |-> autoSelectedPhotos,
      history |-> history,
      currentHistoryIndex |-> IF first THEN 0 ELSE Len(history) - 1]

\* Mutant: the toggle updates selectedPhotos but not the photo's selected flag.
ReduceToggle_FlagUntouched(s, photoId) ==
  LET selectedIndex == IndexOf(s.selectedPhotos, photoId)
      newSelectedPhotos == IF selectedIndex = -1 THEN Append(s.selectedPhotos, photoId)
                           ELSE Splice1(s.selectedPhotos, selectedIndex)
  IN [s EXCEPT !.selectedPhotos = newSelectedPhotos,
               !.history = PushHistory(s, newSelectedPhotos),
               !.currentHistoryIndex = s.currentHistoryIndex + 1]

\* Mutant: the toggle points at history.length of the old history instead of
\* currentHistoryIndex + 1.
ReduceToggle_IndexFromLength(s, photoId) ==
  LET selectedIndex == IndexOf(s.selectedPhotos, photoId)
      newSelectedPhotos == IF selectedIndex = -1 THEN Append(s.selectedPhotos, photoId)
                           ELSE Splice1(s.selectedPhotos, selectedIndex)
  IN [s EXCEPT !.selectedPhotos = newSelectedPhotos,
               !.history = PushHistory(s, newSelectedPhotos),
               !.currentHistoryIndex = Len(s.history),
               !.photos = [i \in 1..Len(s.photos) |->
                            IF s.photos[i].id = photoId
                            THEN SetSelected(s.photos[i], ~s.photos[i].selected)
                            ELSE s.photos[i]]]

\* Mutant: the toggle sets the photo's selected flag instead of flipping it.
ReduceToggle_FlagSet(s, photoId) ==
  LET selectedIndex == IndexOf(s.selectedPhotos, photoId)
      newSelectedPhotos == IF selectedIndex = -1 THEN Append(s.selectedPhotos, photoId)
                           ELSE Splice1(s.selectedPhotos, selectedIndex)
  IN [s EXCEPT !.selectedPhotos = newSelectedPhotos,
               !.history = PushHistory(s, newSelectedPhotos),
               !.currentHistoryIndex = s.currentHistoryIndex + 1,
               !.photos = [i \in 1..Len(s.photos) |->
                            IF s.photos[i].id = photoId
                            THEN SetSelected(s.photos[i], TRUE)
                            ELSE s.photos[i]]]

\* Mutant: the toggle pushes to / splices the selectedPhotos array itself, which
\* is the array the current history entry holds, before recording the new entry.
ReduceToggle_InPlace(s, photoId) ==
  LET selectedIndex == IndexOf(s.selectedPhotos, photoId)
      newSelectedPhotos == IF selectedIndex = -1 THEN Append(s.selectedPhotos, photoId)
                           ELSE Splice1(s.selectedPhotos, selectedIndex)
      kept == [i \in 1..(s.currentHistoryIndex + 1) |->
                 IF i = s.currentHistoryIndex + 1 THEN HistoryEntry(newSelectedPhotos)
                 ELSE s.history[i]]
  IN [s EXCEPT !.selectedPhotos = newSelectedPhotos,
               !.history = Append(kept, HistoryEntry(newSelectedPhotos)),
               !.currentHistoryIndex = s.currentHistoryIndex + 1,
               !.photos = [i \in 1..Len(s.photos) |->
                            IF s.photos[i].id = photoId
                            THEN SetSelected(s.photos[i], ~s.photos[i].selected)
                            ELSE s.photos[i]]]

ReduceToggle(s, photoId) ==
  LET selectedIndex == IndexOf(s.selectedPhotos, photoId)
      newSelectedPhotos == IF selectedIndex = -1 THEN Append(s.selectedPhotos, photoId)
                           ELSE Splice1(s.selectedPhotos, selectedIndex)
  IN [s EXCEPT !.selectedPhotos = newSelectedPhotos,
               !.history = PushHistory(s, newSelectedPhotos),
               !.currentHistoryIndex = s.currentHistoryIndex + 1,
               !.photos = [i \in 1..Len(s.photos) |->
                            IF s.photos[i].id = photoId
                            THEN SetSelected(s.photos[i], ~s.photos[i].selected)
                            ELSE s.photos[i]]]

FindGroup(s, groupId) ==
  IF \E i \in 1..Len(s.groups) : s.groups[i].id = groupId
  THEN <<s.groups[CHOOSE i \in 1..Len(s.groups) :
                    s.groups[i].id = groupId /\ \A j \in 1..(i - 1) : s.groups[j].id # groupId]>>
  ELSE <<>>

\* Mutant: SelectAllInGroup records the selection without testing whether it changed.
ReduceSelectAllInGroup_AlwaysRecords(s, groupId) ==
  LET found == FindGroup(s, groupId)
  IN IF found = <<>> THEN s
     ELSE
       LET photoIds == Ids(found[1].photos)
           newSelectedPhotos == Dedupe(s.selectedPhotos \o photoIds)
       IN [s EXCEPT !.selectedPhotos = newSelectedPhotos,
                    !.history = PushHistory(s, newSelectedPhotos),
                    !.currentHistoryIndex = s.currentHistoryIndex + 1,
                    !.photos = [i \in 1..Len(s.photos) |->
                                 IF Includes(photoIds, s.photos[i].id)
                                 THEN SetSelected(s.photos[i], TRUE)
                                 ELSE s.photos[i]]]

ReduceSelectAllInGroup(s, groupId) ==
  LET found == FindGroup(s, groupId)
  IN IF found = <<>> THEN s
     ELSE
       LET photoIds == Ids(found[1].photos)
           newSelectedPhotos == Dedupe(s.selectedPhotos \o photoIds)
       IN IF /\ Len(newSelectedPhotos) = Len(s.selectedPhotos)
             /\ \A i \in 1..Len(newSelectedPhotos) : Includes(s.selectedPhotos, newSelectedPhotos[i])
          THEN s
          ELSE [s EXCEPT !.selectedPhotos = newSelectedPhotos,
                         !.history = PushHistory(s, newSelectedPhotos),
                         !.currentHistoryIndex = s.currentHistoryIndex + 1,
                         !.photos = [i \in 1..Len(s.photos) |->
                                      IF Includes(photoIds, s.photos[i].id)
                                      THEN SetSelected(s.photos[i], TRUE)
                                      ELSE s.photos[i]]]

\* Mutant: DeselectAllInGroup empties the selection when the group has a selected photo.
ReduceDeselectAllInGroup_ClearsSelection(s, groupId) ==
  LET found == FindGroup(s, groupId)
  IN IF found = <<>> THEN s
     ELSE
       LET photoIds == Ids(found[1].photos)
           Keep(id) == ~Includes(photoIds, id)
       IN IF Len(SelectSeq(s.selectedPhotos, Keep)) = Len(s.selectedPhotos)
          THEN s
          ELSE [s EXCEPT !.selectedPhotos = <<>>,
                         !.history = PushHistory(s, <<>>),
                         !.currentHistoryIndex = s.currentHistoryIndex + 1,
                         !.photos = [i \in 1..Len(s.photos) |->
                                      SetSelected(s.photos[i], FALSE)]]

ReduceDeselectAllInGroup(s, groupId) ==
  LET found == FindGroup(s, groupId)
  IN IF found = <<>> THEN s
     ELSE
       LET photoIds == Ids(found[1].photos)
           Keep(id) == ~Includes(photoIds, id)
           newSelectedPhotos == SelectSeq(s.selectedPhotos, Keep)
       IN IF Len(newSelectedPhotos) = Len(s.selectedPhotos)
          THEN s
          ELSE [s EXCEPT !.selectedPhotos = newSelectedPhotos,
                         !.history = PushHistory(s, newSelectedPhotos),
                         !.currentHistoryIndex = s.currentHistoryIndex + 1,
                         !.photos = [i \in 1..Len(s.photos) |->
                                      IF Includes(photoIds, s.photos[i].id)
                                      THEN SetSelected(s.photos[i], FALSE)
                                      ELSE s.photos[i]]]

\* Mutant: SelectAll selects every photo without recording a history entry.
ReduceSelectAll_Unrecorded(s) ==
  LET allPhotoIds == Ids(s.photos)
  IN IF /\ Len(allPhotoIds) = Len(s.selectedPhotos)
        /\ \A i \in 1..Len(allPhotoIds) : Includes(s.selectedPhotos, allPhotoIds[i])
     THEN s
     ELSE [s EXCEPT !.selectedPhotos = allPhotoIds,
                    !.photos = [i \in 1..Len(s.photos) |-> SetSelected(s.photos[i], TRUE)]]

ReduceSelectAll(s) ==
  LET allPhotoIds == Ids(s.photos)
  IN IF /\ Len(allPhotoIds) = Len(s.selectedPhotos)
        /\ \A i \in 1..Len(allPhotoIds) : Includes(s.selectedPhotos, allPhotoIds[i])
     THEN s
     ELSE [s EXCEPT !.selectedPhotos = allPhotoIds,
                    !.history = PushHistory(s, allPhotoIds),
                    !.currentHistoryIndex = s.currentHistoryIndex + 1,
                    !.photos = [i \in 1..Len(s.photos) |-> SetSelected(s.photos[i], TRUE)]]

\* Mutant: DeselectAll clears the selection without recording it.
ReduceDeselectAll_Unrecorded(s) ==
  IF Len(s.selectedPhotos) = 0 THEN s
  ELSE [s EXCEPT !.selectedPhotos = <<>>,
                 !.photos = [i \in 1..Len(s.photos) |-> SetSelected(s.photos[i], FALSE)]]

ReduceDeselectAll(s) ==
  IF Len(s.selectedPhotos) = 0 THEN s
  ELSE [s EXCEPT !.selectedPhotos = <<>>,
                 !.history = PushHistory(s, <<>>),
                 !.currentHistoryIndex = s.currentHistoryIndex + 1,
                 !.photos = [i \in 1..Len(s.photos) |-> SetSelected(s.photos[i], FALSE)]]

\* Mutant: restoring an entry also takes the photos out of their groups.
Restore_DropsGrouping(s, index) ==
  LET historyState == s.history[index + 1]
  IN [s EXCEPT !.selectedPhotos = historyState.selectedPhotos,
               !.currentHistoryIndex = index,
               !.groups = <<>>,
               !.uniquePhotos = [i \in 1..Len(s.photos) |-> PhotoData(s.photos[i])],
               !.photos = [i \in 1..Len(s.photos) |->
                            SetSelected(s.photos[i],
                                        Includes(historyState.selectedPhotos, s.photos[i].id))]]

Restore(s, index) ==
  LET historyState == s.history[index + 1]
  IN [s EXCEPT !.selectedPhotos = historyState.selectedPhotos,
               !.currentHistoryIndex = index,
               !.photos = [i \in 1..Len(s.photos) |->
                            SetSelected(s.photos[i],
                                        Includes(historyState.selectedPhotos, s.photos[i].id))]]

\* Mutant: Undo moves the pointer back but does not restore the selection.
ReduceUndo_PointerOnly(s) ==
  IF s.currentHistoryIndex <= 0 THEN s
  ELSE [s EXCEPT !.currentHistoryIndex = s.currentHistoryIndex - 1]

\* Mutant: Undo at index 0 goes back to the empty selection of before the first entry.
ReduceUndo_BelowFirstEntry(s) ==
  IF s.currentHistoryIndex < 0 THEN s
  ELSE IF s.currentHistoryIndex = 0
  THEN [s EXCEPT !.selectedPhotos = <<>>,
                 !.currentHistoryIndex = -1,
                 !.photos = [i \in 1..Len(s.photos) |-> SetSelected(s.photos[i], FALSE)]]
  ELSE Restore(s, s.currentHistoryIndex - 1)

ReduceUndo(s) ==
  IF s.currentHistoryIndex <= 0 THEN s ELSE Restore(s, s.currentHistoryIndex - 1)

\* Mutant: Redo restores the selection and the pointer but not the photos' flags.
ReduceRedo_FlagsUntouched(s) ==
  IF s.currentHistoryIndex >= Len(s.history) - 1 THEN s
  ELSE [s EXCEPT !.selectedPhotos = s.history[s.currentHistoryIndex + 2].selectedPhotos,
                 !.currentHistoryIndex = s.currentHistoryIndex + 1]

\* Mutant: Redo goes to the last entry of the history at once.
ReduceRedo_JumpsToLast(s) ==
  IF s.currentHistoryIndex >= Len(s.history) - 1 THEN s ELSE Restore(s, Len(s.history) - 1)

ReduceRedo(s) ==
  IF s.currentHistoryIndex >= Len(s.history) - 1 THEN s ELSE Restore(s, s.currentHistoryIndex + 1)

reducer(s, action) ==
  CASE action.type = "ADD_PHOTO_AND_UPDATE_GROUPS" ->
         ReduceAdd(s, action.photo, action.groups, action.uniquePhotos)
    [] action.type = "TOGGLE_SELECT_PHOTO" -> ReduceToggle(s, action.photoId)
    [] action.type = "SELECT_ALL_IN_GROUP" -> ReduceSelectAllInGroup(s, action.groupId)
    [] action.type = "DESELECT_ALL_IN_GROUP" -> ReduceDeselectAllInGroup(s, action.groupId)
    [] action.type = "SELECT_ALL" -> ReduceSelectAll(s)
    [] action.type = "DESELECT_ALL" -> ReduceDeselectAll(s)
    [] action.type = "UNDO" -> ReduceUndo(s)
    [] action.type = "REDO" -> ReduceRedo(s)
    [] OTHER -> s

\* ---- PhotoProvider: the store, the stateRef mirror and the addPhotos calls ----
VARIABLES state, stateRef, lastAction, isLoading, isPreparingEmbeddings,
          qualityEmbeddings, pc, remaining, newPhoto, regrouped, nextId

\* A direct call of groupSimilarPhotos(photos, similarityThreshold): its
\* arguments, whether it has returned, and what it returned.
VARIABLE grouper

\* A direct call of the scoring part of analyzeImage: the cosine similarities of
\* the image embedding with the positive and the negative prompt embeddings,
\* whether an embedding was given, whether it has returned, and the quality.
VARIABLE scorer

\* The module-level promises of imageAnalysis.ts and the callers of getModels.
VARIABLE loader

\* How many times prepareQualityEmbeddings has been called.
VARIABLE prepareCalls

vars == <<state, stateRef, lastAction, isLoading, isPreparingEmbeddings,
          qualityEmbeddings, pc, remaining, newPhoto, regrouped, nextId, grouper,
          scorer, loader, prepareCalls>>

analysisVars == <<grouper, scorer, loader, prepareCalls>>

storeVars == <<state, lastAction>>
prepVars == <<isPreparingEmbeddings, qualityEmbeddings>>
callVars == <<pc, remaining, newPhoto, regrouped, nextId>>

NoPhoto == [id |-> GhostId, embedding |-> NoEmbedding, quality |-> 0, dateCreated |-> 0,
            selected |-> FALSE]
NoGrouping == [groups |-> <<>>, uniquePhotos |-> <<>>]

NoCall == [photos |-> <<>>, threshold |-> DefaultThreshold, returned |-> FALSE,
           result |-> NoGrouping, compared |-> {}]

NoScoring == [positive |-> <<>>, negative |-> <<>>, embedding |-> NoEmbedding,
              qualityEmbeddings |-> "null", returned |-> FALSE, scored |-> FALSE,
              quality |-> 0]

Kinds == {"processor", "vision_model", "tokenizer", "text_model"}
Callers == 1..NumCallers

\* No from_pretrained call made: the four promises are null.  promise[k] is the
\* state of the promise the variable holds, instance[k] the number of the load
\* that made it, loads[k] how many loads of kind k were started.
\* overlapped: a call was made while another caller was waiting for a load.
NotLoaded ==
  [promise |-> [k \in Kinds |-> "null"], instance |-> [k \in Kinds |-> 0],
   loads |-> [k \in Kinds |-> 0],
   caller |-> [c \in Callers |-> "idle"],
   awaited |-> [c \in Callers |-> [k \in Kinds |-> 0]],
   overlapped |-> FALSE]

\* The provider as mounted: the reducer's initialState, no addPhotos call
\* started, the mount effect has called prepareQualityEmbeddings.
Mounted ==
  /\ prepareCalls = 1
  /\ state = initialState
  /\ stateRef = <<>>
  /\ lastAction = [type |-> "NONE"]
  /\ isLoading = FALSE
  /\ isPreparingEmbeddings = TRUE
  /\ qualityEmbeddings = "null"
  /\ pc = [c \in Calls |-> "idle"]
  /\ remaining = [c \in Calls |-> 0]
  /\ newPhoto = [c \in Calls |-> NoPhoto]
  /\ regrouped = [c \in Calls |-> NoGrouping]
  /\ nextId = 1

Init == Mounted /\ grouper = NoCall /\ scorer = NoScoring /\ loader = NotLoaded

\* dispatch(action): the reducer is applied to the latest state, in dispatch order.
Dispatch(action) ==
  /\ state' = reducer(state, action)
  /\ lastAction' = action

\* useEffect(() => { stateRef.current = state }, [state]) runs after the render
\* that follows a state change, not at the dispatch.
\* stateRef holds what addPhotos reads of stateRef.current: the photos.
RefPhotos(s) == [i \in 1..Len(s.photos) |-> PhotoData(s.photos[i])]

SyncStateRef ==
  /\ stateRef # RefPhotos(state)
  /\ stateRef' = RefPhotos(state)
  /\ UNCHANGED <<analysisVars, storeVars, isLoading, prepVars, callVars>>

\* The mount effect: prepareQualityEmbeddings() resolves or rejects.
PrepareResolved ==
  /\ isPreparingEmbeddings
  /\ qualityEmbeddings' = "ready"
  /\ isPreparingEmbeddings' = FALSE
  /\ UNCHANGED <<analysisVars, storeVars, stateRef, isLoading, callVars>>

PrepareRejected ==
  /\ isPreparingEmbeddings
  /\ qualityEmbeddings' = qualityEmbeddings
  /\ isPreparingEmbeddings' = FALSE
  /\ UNCHANGED <<analysisVars, storeVars, stateRef, isLoading, callVars>>

RECURSIVE SumUpTo(_, _)
SumUpTo(f, n) == IF n = 0 THEN 0 ELSE f[n] + SumUpTo(f, n - 1)

\* Files the model may still submit: MaxFiles less those being or waiting to be processed.
FilesLeft == MaxFiles - (nextId - 1) - SumUpTo(remaining, NumCalls)

\* Mutant: the guard tests isPreparingEmbeddings only.
AddPhotosStart_ChecksPreparingOnly(c) ==
  /\ pc[c] = "idle"
  /\ \E n \in 1..FilesLeft :
       IF isPreparingEmbeddings
       THEN /\ pc' = [pc EXCEPT ![c] = "rejected"]
            /\ UNCHANGED <<remaining, isLoading>>
       ELSE /\ pc' = [pc EXCEPT ![c] = "extract"]
            /\ remaining' = [remaining EXCEPT ![c] = n]
            /\ isLoading' = TRUE
  /\ UNCHANGED <<analysisVars, storeVars, stateRef, prepVars, newPhoto, regrouped, nextId>>

\* addPhotos(files), lines 351-359: the guards and setIsLoading(true).
AddPhotosStart(c) ==
  /\ pc[c] = "idle"
  /\ \E n \in 1..FilesLeft :
       IF isPreparingEmbeddings \/ qualityEmbeddings = "null"
       THEN /\ pc' = [pc EXCEPT ![c] = "rejected"]
            /\ UNCHANGED <<remaining, isLoading>>
       ELSE /\ pc' = [pc EXCEPT ![c] = "extract"]
            /\ remaining' = [remaining EXCEPT ![c] = n]
            /\ isLoading' = TRUE
  /\ UNCHANGED <<analysisVars, storeVars, stateRef, prepVars, newPhoto, regrouped, nextId>>

\* Loop head and step 2: a fresh id, the file's lastModified, and the awaited
\* extractFeatures, whose failure leaves embedding undefined.
ExtractFeatures(c) ==
  /\ pc[c] = "extract"
  /\ \E d \in Dates, e \in Embeddings \cup {NoEmbedding} :
       newPhoto' = [newPhoto EXCEPT ![c] =
                      [id |-> nextId, embedding |-> e, quality |-> 0, dateCreated |-> d,
                       selected |-> FALSE]]
  /\ nextId' = nextId + 1
  /\ pc' = [pc EXCEPT ![c] = "analyze"]
  /\ UNCHANGED <<analysisVars, storeVars, stateRef, isLoading, prepVars, remaining, regrouped>>

AnalyzeImage_PreparesPerPhoto(c) ==
  /\ pc[c] = "analyze"
  /\ prepareCalls' = prepareCalls + 1
  /\ \E scoringThrows \in BOOLEAN :
       newPhoto' = [newPhoto EXCEPT ![c].quality =
                      IF HasEmbedding(newPhoto[c]) /\ ~scoringThrows
                      THEN Score(RawOf(newPhoto[c].embedding))
                      ELSE 0]
  /\ pc' = [pc EXCEPT ![c] = "regroup"]
  /\ UNCHANGED <<grouper, scorer, loader, storeVars, stateRef, isLoading, prepVars,
                 remaining, regrouped, nextId>>

\* Step 3 and 4: the awaited analyzeImage; quality is the score, or 0 when the
\* embedding is missing or the scoring throws.  captureDate is file.lastModified,
\* the same value as dateCreated.
AnalyzeImage(c) ==
  /\ pc[c] = "analyze"
  /\ \E scoringThrows \in BOOLEAN :
       newPhoto' = [newPhoto EXCEPT ![c].quality =
                      IF HasEmbedding(newPhoto[c]) /\ ~scoringThrows
                      THEN Score(RawOf(newPhoto[c].embedding))
                      ELSE 0]
  /\ pc' = [pc EXCEPT ![c] = "regroup"]
  /\ UNCHANGED <<analysisVars, storeVars, stateRef, isLoading, prepVars, remaining, regrouped, nextId>>

\* Step 5: read stateRef.current.photos and regroup; the await yields before the dispatch.
Regroup(c) ==
  /\ pc[c] = "regroup"
  /\ LET currentPhotos == stateRef
         nextPhotos == Append(currentPhotos, PhotoData(newPhoto[c]))
     IN regrouped' = [regrouped EXCEPT ![c] = groupSimilarPhotos(nextPhotos, DefaultThreshold)]
  /\ pc' = [pc EXCEPT ![c] = "dispatch"]
  /\ UNCHANGED <<analysisVars, storeVars, stateRef, isLoading, prepVars, remaining, newPhoto, nextId>>

AddAction(c) ==
  [type |-> "ADD_PHOTO_AND_UPDATE_GROUPS", photo |-> newPhoto[c],
   groups |-> regrouped[c].groups, uniquePhotos |-> regrouped[c].uniquePhotos]

DispatchAdd_SkipsUnembedded(c) ==
  /\ pc[c] = "dispatch"
  /\ IF HasEmbedding(newPhoto[c])
     THEN Dispatch(AddAction(c))
     ELSE UNCHANGED storeVars
  /\ remaining' = [remaining EXCEPT ![c] = remaining[c] - 1]
  /\ newPhoto' = [newPhoto EXCEPT ![c] = NoPhoto]
  /\ regrouped' = [regrouped EXCEPT ![c] = NoGrouping]
  /\ IF remaining[c] > 1
     THEN /\ pc' = [pc EXCEPT ![c] = "extract"]
          /\ UNCHANGED isLoading
     ELSE /\ pc' = [pc EXCEPT ![c] = "done"]
          /\ isLoading' = FALSE
  /\ UNCHANGED <<analysisVars, stateRef, prepVars, nextId>>

\* Mutant: the call ends after the dispatch of its first file.
DispatchAdd_EndsAfterFirstFile(c) ==
  /\ pc[c] = "dispatch"
  /\ Dispatch(AddAction(c))
  /\ remaining' = [remaining EXCEPT ![c] = remaining[c] - 1]
  /\ newPhoto' = [newPhoto EXCEPT ![c] = NoPhoto]
  /\ regrouped' = [regrouped EXCEPT ![c] = NoGrouping]
  /\ pc' = [pc EXCEPT ![c] = "done"]
  /\ isLoading' = FALSE
  /\ UNCHANGED <<analysisVars, stateRef, prepVars, nextId>>

\* Step 6: the dispatch, then the next file or, after the last one, finally { setIsLoading(false) }.
DispatchAdd(c) ==
  /\ pc[c] = "dispatch"
  /\ Dispatch(AddAction(c))
  /\ remaining' = [remaining EXCEPT ![c] = remaining[c] - 1]
  /\ newPhoto' = [newPhoto EXCEPT ![c] = NoPhoto]
  /\ regrouped' = [regrouped EXCEPT ![c] = NoGrouping]
  /\ IF remaining[c] > 1
     THEN /\ pc' = [pc EXCEPT ![c] = "extract"]
          /\ UNCHANGED isLoading
     ELSE /\ pc' = [pc EXCEPT ![c] = "done"]
          /\ isLoading' = FALSE
  /\ UNCHANGED <<analysisVars, stateRef, prepVars, nextId>>

\* ---- the commands the UI calls ----
CanGrow == state.currentHistoryIndex + 1 < MaxHistory

UserDispatch(action) ==
  /\ Dispatch(action)
  /\ UNCHANGED <<analysisVars, stateRef, isLoading, prepVars, callVars>>

PhotoIds == Range(Ids(state.photos))
GroupIds == {state.groups[i].id : i \in 1..Len(state.groups)}

ToggleSelectPhoto ==
  /\ CanGrow
  /\ \E id \in PhotoIds \cup {GhostId} :
       UserDispatch([type |-> "TOGGLE_SELECT_PHOTO", photoId |-> id])

SelectAllInGroup ==
  /\ CanGrow
  /\ \E g \in GroupIds \cup {GhostGroupId} :
       UserDispatch([type |-> "SELECT_ALL_IN_GROUP", groupId |-> g])

DeselectAllInGroup ==
  /\ CanGrow
  /\ \E g \in GroupIds \cup {GhostGroupId} :
       UserDispatch([type |-> "DESELECT_ALL_IN_GROUP", groupId |-> g])

SelectAll == CanGrow /\ UserDispatch([type |-> "SELECT_ALL"])

DeselectAll == CanGrow /\ UserDispatch([type |-> "DESELECT_ALL"])

Undo ==
  /\ Dispatch([type |-> "UNDO"])
  /\ UNCHANGED <<analysisVars, stateRef, isLoading, prepVars, callVars>>

Redo ==
  /\ Dispatch([type |-> "REDO"])
  /\ UNCHANGED <<analysisVars, stateRef, isLoading, prepVars, callVars>>

Next ==
  \/ SyncStateRef
  \/ PrepareResolved
  \/ PrepareRejected
  \/ \E c \in Calls : AddPhotosStart(c)
  \/ \E c \in Calls : ExtractFeatures(c)
  \/ \E c \in Calls : AnalyzeImage(c)
  \/ \E c \in Calls : Regroup(c)
  \/ \E c \in Calls : DispatchAdd(c)
  \/ ToggleSelectPhoto
  \/ SelectAllInGroup
  \/ DeselectAllInGroup
  \/ SelectAll
  \/ DeselectAll
  \/ Undo
  \/ Redo

Spec == Init /\ [][Next]_vars

\* ---- the store on its own: more photos and a longer history ----
\* One pass of the addPhotos loop taken as a whole: the photo that
\* extractFeatures and analyzeImage produce, the grouping of the photos that
\* stateRef.current holds (the first k of the store's photos: k photos had been
\* stored when the effect last ran) plus the new photo, and the dispatch.
StoreIngest ==
  /\ Len(state.photos) < StoreMaxPhotos
  /\ state.currentHistoryIndex + 1 < StoreMaxHistory
  /\ \E d \in StoreDates, e \in Embeddings \cup {NoEmbedding}, scoringThrows \in BOOLEAN,
        k \in 0..Len(state.photos) :
       LET photo == [id |-> nextId, embedding |-> e,
                     quality |-> IF e # NoEmbedding /\ ~scoringThrows
                                 THEN Score(RawOf(e)) ELSE 0,
                     dateCreated |-> d, selected |-> FALSE]
           currentPhotos == SubSeq(RefPhotos(state), 1, k)
           nextPhotos == Append(currentPhotos, PhotoData(photo))
           grouping == groupSimilarPhotos(nextPhotos, DefaultThreshold)
       IN Dispatch([type |-> "ADD_PHOTO_AND_UPDATE_GROUPS", photo |-> photo,
                    groups |-> grouping.groups, uniquePhotos |-> grouping.uniquePhotos])
  /\ nextId' = nextId + 1
  /\ UNCHANGED <<analysisVars, stateRef, isLoading, prepVars, pc, remaining, newPhoto,
                 regrouped>>

\* The selection commands of the context value, lines 464-482.
CommandActions ==
  {[type |-> "TOGGLE_SELECT_PHOTO", photoId |-> id] : id \in PhotoIds \cup {GhostId}}
    \cup {[type |-> t, groupId |-> g] :
            t \in {"SELECT_ALL_IN_GROUP", "DESELECT_ALL_IN_GROUP"},
            g \in GroupIds \cup {GhostGroupId}}
    \cup {[type |-> "SELECT_ALL"], [type |-> "DESELECT_ALL"]}

StoreCommand ==
  /\ state.currentHistoryIndex + 1 < StoreMaxHistory
  /\ \E action \in CommandActions : UserDispatch(action)

NextStore ==
  \/ StoreIngest
  \/ StoreCommand
  \/ Undo
  \/ Redo

SpecStore == Init /\ [][NextStore]_vars

\* What StoreIngest rests on: the grouping an addPhotos call dispatches is the
\* grouping of a prefix of the store's photos plus the new photo.
IngestPayloadFromPrefix ==
  \A c \in Calls :
    pc[c] = "dispatch" =>
      \E k \in 0..Len(state.photos) :
        regrouped[c] = groupSimilarPhotos(Append(SubSeq(RefPhotos(state), 1, k),
                                                 PhotoData(newPhoto[c])),
                                          DefaultThreshold)

\* ---- groupSimilarPhotos on its own: a direct call on any photos ----
Thresholds == {DefaultThreshold, 75, 100}
Qualities == {Score(RawOf(1)), Score(RawOf(2))}

PhotoFeatures ==
  [embedding : Embeddings \cup {NoEmbedding, EmptyEmbedding}, quality : Qualities,
   dateCreated : Dates]

\* The photo sequences of length n with distinct ids (the position).
GroupInputs(n) ==
  {[i \in 1..n |-> [id |-> i, embedding |-> f[i].embedding, quality |-> f[i].quality,
                    dateCreated |-> f[i].dateCreated]] : f \in [1..n -> PhotoFeatures]}

InitGroup ==
  /\ Mounted
  /\ scorer = NoScoring
  /\ loader = NotLoaded
  /\ \E n \in 0..MaxGroupInput : \E ps \in GroupInputs(n) : \E t \in Thresholds :
       grouper = [NoCall EXCEPT !.photos = ps, !.threshold = t]

CallGroupSimilarPhotos ==
  /\ ~grouper.returned
  /\ grouper' = [grouper EXCEPT
                   !.returned = TRUE,
                   !.result = groupSimilarPhotos(grouper.photos, grouper.threshold),
                   !.compared = ComparedIds(grouper.photos, grouper.threshold)]
  /\ UNCHANGED <<storeVars, stateRef, isLoading, prepVars, callVars, scorer, loader,
                 prepareCalls>>

NextGroup == CallGroupSimilarPhotos

SpecGroup == InitGroup /\ [][NextGroup]_vars

\* ---- the ingestion pipeline on its own, every awaited step settling ----
\* No command is dispatched by the user.  The mount effect's promise settles,
\* every awaited call of a running addPhotos settles and its continuation
\* runs, and the effect that copies state to stateRef runs after each render;
\* whether and when addPhotos is called is up to the user.
PipelineStep(c) ==
  \/ ExtractFeatures(c)
  \/ AnalyzeImage(c)
  \/ Regroup(c)
  \/ DispatchAdd(c)

NextPipeline ==
  \/ SyncStateRef
  \/ PrepareResolved
  \/ PrepareRejected
  \/ \E c \in Calls : AddPhotosStart(c)
  \/ \E c \in Calls : PipelineStep(c)

\* Call c is past its guards and not at its end: it is at an await or about
\* to dispatch.  Resumes(c) is the step on which it moves on; the only steps
\* of NextPipeline that are Resumes(c) steps are the PipelineStep(c) steps.
Running(c) == pc[c] \in {"extract", "analyze", "regroup", "dispatch"}

Resumes(c) ==
  /\ Running(c)
  /\ \E stage \in {"extract", "analyze", "regroup", "dispatch", "done"} \ {pc[c]} :
       pc' = [pc EXCEPT ![c] = stage]

PipelineFairness ==
  /\ WF_vars(SyncStateRef)
  /\ WF_vars(PrepareResolved \/ PrepareRejected)
  /\ \A c \in Calls : WF_pc(Resumes(c))

SpecPipeline == Init /\ [][NextPipeline]_vars /\ PipelineFairness

\* ---- the scoring of analyzeImage on its own: a direct call ----
\* Cosine similarities of an image embedding with a prompt embedding, hundredths.
Similarities == {-100, 10, 50, 52, 90}

PromptSimilarities ==
  UNION {[1..n -> Similarities] : n \in 1..MaxPrompts}

InitScore ==
  /\ Mounted
  /\ grouper = NoCall
  /\ loader = NotLoaded
  /\ \E pos \in PromptSimilarities, neg \in PromptSimilarities,
        e \in {NoEmbedding, EmptyEmbedding, 1}, qe \in {"null", "ready"} :
       scorer = [NoScoring EXCEPT !.positive = pos, !.negative = neg,
                                  !.embedding = e, !.qualityEmbeddings = qe]

CallAnalyzeImage ==
  /\ ~scorer.returned
  /\ \E scoringThrows \in BOOLEAN :
       scorer' = [scorer EXCEPT
                    !.returned = TRUE,
                    !.scored = /\ HasEmbedding(scorer)
                               /\ scorer.qualityEmbeddings # "null"
                               /\ ~scoringThrows,
                    !.quality = analyzeImageQuality(scorer.embedding,
                                  scorer.qualityEmbeddings, scorer.positive,
                                  scorer.negative, scoringThrows)]
  /\ UNCHANGED <<storeVars, stateRef, isLoading, prepVars, callVars, grouper, loader,
                 prepareCalls>>

NextScore == CallAnalyzeImage

SpecScore == InitScore /\ [][NextScore]_vars

\* ---- getModels on its own: callers, loads and their settling ----
ShouldLoad_Always(l) == TRUE

\* Mutant: a call also starts the loads again when a load has failed.
ShouldLoad_RetriesAfterFailure(l) ==
  \/ l.promise["vision_model"] = "null"
  \/ \E kind \in DOMAIN l.promise : l.promise[kind] = "rejected"

\* if (!visionModelPromise)
ShouldLoad(l) == l.promise["vision_model"] = "null"

\* A call of getModels up to its await: the test and the four from_pretrained
\* calls run without interruption, then the caller waits on the four promises
\* the variables hold at that moment.  A caller may call again once its
\* previous call has settled.
GetModelsCall(k) ==
  /\ loader.caller[k] # "awaiting"
  /\ LET start == ShouldLoad(loader)
         loads1 == IF start THEN [kind \in Kinds |-> loader.loads[kind] + 1]
                            ELSE loader.loads
         instance1 == IF start THEN loads1 ELSE loader.instance
         promise1 == IF start THEN [kind \in Kinds |-> "pending"] ELSE loader.promise
     IN loader' = [promise |-> promise1, instance |-> instance1, loads |-> loads1,
                   caller |-> [loader.caller EXCEPT ![k] = "awaiting"],
                   awaited |-> [loader.awaited EXCEPT ![k] = instance1],
                   overlapped |-> \/ loader.overlapped
                                  \/ \E o \in Callers \ {k} :
                                       /\ loader.caller[o] = "awaiting"
                                       /\ \E kind \in Kinds : loader.promise[kind] = "pending"]
  /\ UNCHANGED <<storeVars, stateRef, isLoading, prepVars, callVars, grouper, scorer,
                 prepareCalls>>

\* A from_pretrained promise settles.
LoadFulfilled(kind) ==
  /\ loader.promise[kind] = "pending"
  /\ loader' = [loader EXCEPT !.promise[kind] = "fulfilled"]
  /\ UNCHANGED <<storeVars, stateRef, isLoading, prepVars, callVars, grouper, scorer,
                 prepareCalls>>

LoadRejected(kind) ==
  /\ loader.promise[kind] = "pending"
  /\ loader' = [loader EXCEPT !.promise[kind] = "rejected"]
  /\ UNCHANGED <<storeVars, stateRef, isLoading, prepVars, callVars, grouper, scorer,
                 prepareCalls>>

\* await Promise.all([...]): fulfilled when all four are, rejected as soon as
\* one is rejected.
GetModelsReturn(k) ==
  /\ loader.caller[k] = "awaiting"
  /\ \A kind \in Kinds : loader.promise[kind] = "fulfilled"
  /\ loader' = [loader EXCEPT !.caller[k] = "returned"]
  /\ UNCHANGED <<storeVars, stateRef, isLoading, prepVars, callVars, grouper, scorer,
                 prepareCalls>>

GetModelsThrow(k) ==
  /\ loader.caller[k] = "awaiting"
  /\ \E kind \in Kinds : loader.promise[kind] = "rejected"
  /\ loader' = [loader EXCEPT !.caller[k] = "threw"]
  /\ UNCHANGED <<storeVars, stateRef, isLoading, prepVars, callVars, grouper, scorer,
                 prepareCalls>>

NextModels ==
  \/ \E k \in Callers : GetModelsCall(k)
  \/ \E kind \in Kinds : LoadFulfilled(kind)
  \/ \E kind \in Kinds : LoadRejected(kind)
  \/ \E k \in Callers : GetModelsReturn(k)
  \/ \E k \in Callers : GetModelsThrow(k)

SpecModels == Init /\ [][NextModels]_vars

\* ---- shared vocabulary of the claims ----
AddType == "ADD_PHOTO_AND_UPDATE_GROUPS"
ToggleType == "TOGGLE_SELECT_PHOTO"
SelectionActionTypes ==
  {AddType, ToggleType, "SELECT_ALL_IN_GROUP", "DESELECT_ALL_IN_GROUP", "SELECT_ALL",
   "DESELECT_ALL"}

\* Only a dispatch changes state, and it records its action in lastAction: a step
\* that changes state was the dispatch of lastAction'.
ChangedBy(types) == state' # state /\ lastAction'.type \in types

Occurrences(s, id) == Cardinality({i \in 1..Len(s) : s[i].id = id})

\* No selection, current or recorded, holds the id that no photo has.
GhostFree ==
  /\ ~Includes(state.selectedPhotos, GhostId)
  /\ \A i \in 1..Len(state.history) : ~Includes(state.history[i].selectedPhotos, GhostId)

GroupedOccurrences(s, id) ==
  SumUpTo([g \in 1..Len(s.groups) |-> Occurrences(s.groups[g].photos, id)], Len(s.groups))

\* C1: in every reachable state every photo's selected flag equals the membership
\* of its id in selectedPhotos.
C1_SelectedFlagMatchesSelection ==
  \A i \in 1..Len(state.photos) :
    state.photos[i].selected = Includes(state.selectedPhotos, state.photos[i].id)

C1_Witness ==
  /\ lastAction.type = ToggleType
  /\ \E i, j \in 1..Len(state.photos) :
       state.photos[i].selected /\ ~state.photos[j].selected

\* C2: in every reachable state every photo of photos is in exactly one of the
\* groups' photos and uniquePhotos, and these hold no photo that photos lacks.
C2_GroupingCoversPhotos ==
  /\ \A i \in 1..Len(state.photos) :
       GroupedOccurrences(state, state.photos[i].id)
         + Occurrences(state.uniquePhotos, state.photos[i].id) = 1
  /\ \A i \in 1..Len(state.uniquePhotos) : state.uniquePhotos[i].id \in PhotoIds
  /\ \A g \in 1..Len(state.groups) : \A i \in 1..Len(state.groups[g].photos) :
       state.groups[g].photos[i].id \in PhotoIds

\* C3: every Ingest the reducer applies carries the grouping of exactly the
\* store's photos at that moment plus the new photo (no stale snapshot).
C3_IngestGroupedOverCurrentPhotos ==
  [][\A c \in Calls :
       DispatchAdd(c) =>
         regrouped[c] = groupSimilarPhotos(Append(RefPhotos(state), PhotoData(newPhoto[c])),
                                           DefaultThreshold)]_vars

\* C4 as stated: Undo right after any single effective action, from any reachable
\* state (the initial one included), gives back the selection held before it.
\* Toggles of an id that no photo has are left out here: C10 states them as no-ops.
C4_UndoRestoresPreviousSelection ==
  [][(/\ ChangedBy(SelectionActionTypes)
      /\ ~(lastAction'.type = ToggleType /\ lastAction'.photoId \notin PhotoIds)) =>
       ReduceUndo(state').selectedPhotos = state.selectedPhotos]_vars

\* C4 amended: the same, for states that already have a history entry
\* (currentHistoryIndex >= 0) and actions other than an Ingest into empty photos.
C4_UndoRestoresPreviousSelectionAfterFirstEntry ==
  [][(/\ ChangedBy(SelectionActionTypes)
      /\ state.currentHistoryIndex >= 0
      /\ ~(lastAction'.type = AddType /\ Len(state.photos) = 0)) =>
       ReduceUndo(state').selectedPhotos = state.selectedPhotos]_vars

C4_Witness ==
  /\ lastAction.type = AddType
  /\ Len(state.photos) >= 2
  /\ state.currentHistoryIndex >= 1
  /\ ReduceUndo(state).selectedPhotos # state.selectedPhotos

\* C5: wherever Undo is not a no-op, Redo after Undo gives back the same
\* selectedPhotos, currentHistoryIndex, history and per-photo selected flags.
C5_RedoAfterUndoRestoresState ==
  state.currentHistoryIndex > 0 =>
    LET r == ReduceRedo(ReduceUndo(state))
    IN /\ r.selectedPhotos = state.selectedPhotos
       /\ r.currentHistoryIndex = state.currentHistoryIndex
       /\ r.history = state.history
       /\ r.photos = state.photos

C5_Witness ==
  /\ state.currentHistoryIndex > 0
  /\ lastAction.type = "REDO"
  /\ ReduceUndo(state).selectedPhotos # state.selectedPhotos
  /\ ReduceUndo(state).photos # state.photos

\* C6: an effective selection-changing action leaves no entry beyond the old
\* pointer but the one it appends, points at the last entry, and makes Redo a no-op.
C6_NewActionDiscardsRedo ==
  [][ChangedBy(SelectionActionTypes) =>
       /\ Len(state'.history) <= state.currentHistoryIndex + 2
       /\ \A i \in 1..(Len(state'.history) - 1) : state'.history[i] = state.history[i]
       /\ state'.history[Len(state'.history)] = HistoryEntry(state'.selectedPhotos)
       /\ state'.currentHistoryIndex = Len(state'.history) - 1
       /\ ReduceRedo(state') = state']_vars

C6_Witness ==
  /\ GhostFree
  /\ lastAction.type \in SelectionActionTypes \ {AddType}
  /\ state.currentHistoryIndex >= 1
  /\ state.currentHistoryIndex = Len(state.history) - 1
  /\ state.history[Len(state.history)] # state.history[Len(state.history) - 1]

\* C7: in every reachable state -1 <= currentHistoryIndex < history.length.
C7_HistoryIndexInRange ==
  /\ -1 <= state.currentHistoryIndex
  /\ state.currentHistoryIndex < Len(state.history)

C7_Witness ==
  /\ GhostFree
  /\ lastAction.type = "UNDO"
  /\ state.currentHistoryIndex >= 0
  /\ state.currentHistoryIndex < Len(state.history) - 1

\* C8: right after an Ingest the selection is exactly the ids of uniquePhotos
\* and of every group's index-0 photo, so one photo of every group is selected.
C8_IngestAutoSelects ==
  lastAction.type = AddType =>
    /\ Range(state.selectedPhotos) =
         {state.uniquePhotos[i].id : i \in 1..Len(state.uniquePhotos)}
           \cup {state.groups[g].photos[1].id : g \in 1..Len(state.groups)}
    /\ \A g \in 1..Len(state.groups) :
         Cardinality({i \in 1..Len(state.groups[g].photos) :
                        Includes(state.selectedPhotos, state.groups[g].photos[i].id)}) = 1

C8_Witness ==
  /\ lastAction.type = AddType
  /\ Len(state.groups) >= 1
  /\ Len(state.history) >= 2
  /\ state.history[Len(state.history) - 1].selectedPhotos # state.selectedPhotos

\* C9: an Ingest into non-empty photos makes history the old history[0..pointer]
\* plus one entry with the new selection, even an unchanged one, and points at
\* it; an Ingest into empty photos makes history that one entry, pointer 0.
C9_IngestHistoryUpdate ==
  [][ChangedBy({AddType}) =>
       IF Len(state.photos) > 0
       THEN /\ state'.history =
                 Append(SubSeq(state.history, 1, state.currentHistoryIndex + 1),
                        HistoryEntry(state'.selectedPhotos))
            /\ state'.currentHistoryIndex = Len(state'.history) - 1
       ELSE /\ state'.history = <<HistoryEntry(state'.selectedPhotos)>>
            /\ state'.currentHistoryIndex = 0]_vars

C9_Witness ==
  /\ lastAction.type = AddType
  /\ Len(state.photos) >= 2
  /\ state.currentHistoryIndex = Len(state.history) - 1
  /\ state.currentHistoryIndex >= 1
  /\ state.history[Len(state.history) - 1].selectedPhotos = state.selectedPhotos

\* C10: ToggleSelect with an id that no photo has returns the state unchanged,
\* so selectedPhotos never holds an id that is not in photos.
C10_ToggleUnknownIdIsNoOp ==
  [][(lastAction'.type = ToggleType /\ lastAction'.photoId \notin PhotoIds) =>
       /\ state' = state
       /\ Range(state'.selectedPhotos) \subseteq PhotoIds]_vars

\* The selection the history entry at 0-based index i recorded, as a set.
EntrySet(i) == Range(state.history[i + 1].selectedPhotos)

\* C11: in every reachable state, for every id (of a photo or of none), two
\* ToggleSelect(id) in a row give a selectedPhotos with the same members and
\* leave every photo's selected flag as it was.
C11_DoubleToggleRestoresSelection ==
  \A id \in PhotoIds \cup {GhostId} :
    LET twice == ReduceToggle(ReduceToggle(state, id), id)
    IN /\ Range(twice.selectedPhotos) = Range(state.selectedPhotos)
       /\ Len(twice.photos) = Len(state.photos)
       /\ \A i \in 1..Len(state.photos) :
            twice.photos[i].selected = state.photos[i].selected

\* Two toggles of one photo were dispatched in a row: the last two history
\* entries each differ from their predecessor by that photo's id alone.
C11_Witness ==
  /\ lastAction.type = ToggleType
  /\ lastAction.photoId \in PhotoIds
  /\ state.currentHistoryIndex >= 2
  /\ state.currentHistoryIndex = Len(state.history) - 1
  /\ LET n == state.currentHistoryIndex
         id == lastAction.photoId
     IN /\ EntrySet(n) = EntrySet(n - 1) \cup {id}
        /\ id \notin EntrySet(n - 1)
        /\ EntrySet(n - 2) = EntrySet(n)

\* The ids of the photos of the group with id g (no id when no group has id g).
GroupPhotoIds(g) ==
  UNION {Range(Ids(state.groups[i].photos)) : i \in {j \in 1..Len(state.groups) : state.groups[j].id = g}}

\* C12: SelectAllInGroup(g) and DeselectAllInGroup(g) return the state unchanged
\* when no group has id g, SelectAllInGroup(g) also when every photo of the
\* group is selected, DeselectAllInGroup(g) also when none of them is.
C12_GroupCommandNoOps ==
  \A g \in GroupIds \cup {GhostGroupId} :
    /\ (g \notin GroupIds \/ GroupPhotoIds(g) \subseteq Range(state.selectedPhotos)) =>
         ReduceSelectAllInGroup(state, g) = state
    /\ (g \notin GroupIds \/ GroupPhotoIds(g) \cap Range(state.selectedPhotos) = {}) =>
         ReduceDeselectAllInGroup(state, g) = state

\* SelectAllInGroup was dispatched on a fully selected group and changed nothing:
\* the entries after the pointer are still there.
C12_Witness ==
  /\ lastAction.type = "SELECT_ALL_IN_GROUP"
  /\ lastAction.groupId \in GroupIds
  /\ GroupPhotoIds(lastAction.groupId) \subseteq Range(state.selectedPhotos)
  /\ state.currentHistoryIndex < Len(state.history) - 1

\* r is state with one history entry, holding r's selection, put after the
\* entry state's pointer designates, and the pointer moved onto it.
OneEntryAppended(r) ==
  /\ r.history = Append(SubSeq(state.history, 1, state.currentHistoryIndex + 1),
                        HistoryEntry(r.selectedPhotos))
  /\ r.currentHistoryIndex = state.currentHistoryIndex + 1

\* C13: for a group g that exists, SelectAllInGroup(g), when some photo of g is
\* not selected, makes the selection the old one plus the ids of g's photos, and
\* DeselectAllInGroup(g), when some photo of g is selected, makes it the old one
\* minus those ids; ids outside g keep their membership and one history entry
\* is appended.
C13_GroupCommandEffect ==
  \A g \in GroupIds :
    LET ids == GroupPhotoIds(g)
        old == Range(state.selectedPhotos)
        outside == (PhotoIds \cup {GhostId}) \ ids
        sel == ReduceSelectAllInGroup(state, g)
        des == ReduceDeselectAllInGroup(state, g)
    IN /\ ~(ids \subseteq old) =>
            /\ Range(sel.selectedPhotos) = old \cup ids
            /\ \A id \in outside : id \in Range(sel.selectedPhotos) <=> id \in old
            /\ OneEntryAppended(sel)
       /\ ids \cap old # {} =>
            /\ Range(des.selectedPhotos) = old \ ids
            /\ \A id \in outside : id \in Range(des.selectedPhotos) <=> id \in old
            /\ OneEntryAppended(des)

\* DeselectAllInGroup took the selected photos of a group out of a selection
\* that also holds a photo outside the group, which stays selected.
C13_Witness ==
  /\ lastAction.type = "DESELECT_ALL_IN_GROUP"
  /\ lastAction.groupId \in GroupIds
  /\ state.currentHistoryIndex >= 1
  /\ state.currentHistoryIndex = Len(state.history) - 1
  /\ LET ids == GroupPhotoIds(lastAction.groupId)
         n == state.currentHistoryIndex
     IN /\ EntrySet(n - 1) \cap ids # {}
        /\ EntrySet(n) = EntrySet(n - 1) \ ids
        /\ EntrySet(n) \cap PhotoIds # {}
        /\ Range(state.selectedPhotos) = EntrySet(n)

\* C14: SelectAll returns the state unchanged exactly when selectedPhotos already
\* has the ids of all photos as its members, and otherwise makes selectedPhotos
\* the ids of all photos; DeselectAll returns the state unchanged exactly when
\* selectedPhotos is empty, and otherwise empties it; each effective one
\* appends one history entry.
C14_SelectAllDeselectAll ==
  LET sa == ReduceSelectAll(state)
      da == ReduceDeselectAll(state)
  IN /\ IF Range(state.selectedPhotos) = PhotoIds
        THEN sa = state
        ELSE /\ sa # state
             /\ sa.selectedPhotos = Ids(state.photos)
             /\ OneEntryAppended(sa)
     /\ IF state.selectedPhotos = <<>>
        THEN da = state
        ELSE /\ da # state
             /\ da.selectedPhotos = <<>>
             /\ OneEntryAppended(da)

\* SelectAll was dispatched on a selection that lacked a photo and recorded the
\* selection of all photos.
C14_Witness ==
  /\ lastAction.type = "SELECT_ALL"
  /\ Len(state.photos) >= 2
  /\ state.currentHistoryIndex >= 1
  /\ state.currentHistoryIndex = Len(state.history) - 1
  /\ state.selectedPhotos = Ids(state.photos)
  /\ EntrySet(state.currentHistoryIndex) = PhotoIds
  /\ EntrySet(state.currentHistoryIndex - 1) # PhotoIds

\* C15: Undo with currentHistoryIndex 0 or -1, and Redo with currentHistoryIndex
\* history.length - 1, return the state unchanged.
C15_UndoRedoAtEndsAreNoOps ==
  /\ state.currentHistoryIndex \in {0, -1} => ReduceUndo(state) = state
  /\ state.currentHistoryIndex = Len(state.history) - 1 => ReduceRedo(state) = state

\* Undo was dispatched at index 0 of a one-entry history that holds a selection.
C15_Witness ==
  /\ lastAction.type = "UNDO"
  /\ state.currentHistoryIndex = 0
  /\ Len(state.history) = 1
  /\ Len(state.photos) >= 1
  /\ state.selectedPhotos # <<>>

\* C16: from every reachable state, SelectAll, then DeselectAll, then Undo end
\* with the ids of all photos as the members of selectedPhotos.
C16_SelectAllDeselectAllUndo ==
  Range(ReduceUndo(ReduceDeselectAll(ReduceSelectAll(state))).selectedPhotos) = PhotoIds

\* ---- claims about a direct call of groupSimilarPhotos ----
\* The photos of all groups of a grouping, one group after the other.
RECURSIVE GroupedPhotos(_)
GroupedPhotos(groups) ==
  IF groups = <<>> THEN <<>>
  ELSE GroupedPhotos(SubSeq(groups, 1, Len(groups) - 1)) \o groups[Len(groups)].photos

\* C17: groupSimilarPhotos, on photos with distinct ids and any threshold,
\* returns every input photo exactly once over the groups' photos and
\* uniquePhotos, returns no other photo, and puts every photo without an
\* embedding (undefined or empty) in uniquePhotos without ever handing it to
\* the similarity function.
C17_GroupingPartitionsInput ==
  grouper.returned =>
    LET input == grouper.photos
        placed == GroupedPhotos(grouper.result.groups) \o grouper.result.uniquePhotos
    IN /\ \A i \in 1..Len(input) : Occurrences(placed, input[i].id) = 1
       /\ Range(placed) = Range(input)
       /\ \A i \in 1..Len(input) :
            ~HasEmbedding(input[i]) =>
              /\ Includes(grouper.result.uniquePhotos, input[i])
              /\ input[i].id \notin grouper.compared

\* A call that formed a group and was also given a photo with no embedding and
\* a photo with an empty one.
C17_Witness ==
  /\ grouper.returned
  /\ Len(grouper.result.groups) >= 1
  /\ grouper.compared # {}
  /\ \E i, j \in 1..Len(grouper.photos) :
       /\ grouper.photos[i].embedding = NoEmbedding
       /\ grouper.photos[j].embedding = EmptyEmbedding

\* The position of photo p in the photos given to the call.
InputIndex(p) == CHOOSE i \in 1..Len(grouper.photos) : grouper.photos[i].id = p.id

\* C18: every group returned has at least 2 photos, in descending quality with
\* equal qualities in input order; so its index-0 photo has the greatest
\* quality of the group and is the earliest in input order of those that have it.
C18_GroupsSortedByQuality ==
  grouper.returned =>
    \A g \in 1..Len(grouper.result.groups) :
      LET ps == grouper.result.groups[g].photos
      IN /\ Len(ps) >= 2
         /\ \A a, b \in 1..Len(ps) :
              a < b => \/ ps[a].quality > ps[b].quality
                       \/ /\ ps[a].quality = ps[b].quality
                          /\ InputIndex(ps[a]) < InputIndex(ps[b])
         /\ \A b \in 2..Len(ps) :
              /\ ps[1].quality >= ps[b].quality
              /\ ps[1].quality = ps[b].quality => InputIndex(ps[1]) < InputIndex(ps[b])

\* A group of three whose two best photos have the same quality and whose first
\* photo in input order (the anchor) has a lower one.
C18_Witness ==
  /\ grouper.returned
  /\ \E g \in 1..Len(grouper.result.groups) :
       LET ps == grouper.result.groups[g].photos
       IN /\ Len(ps) >= 3
          /\ ps[1].quality = ps[2].quality
          /\ ps[3].quality < ps[2].quality
          /\ InputIndex(ps[3]) < InputIndex(ps[1])

\* The call of the scenario: three embedded photos A, B, C in this order with
\* sim(A,B) = 0.8, sim(B,C) = 0.75, sim(A,C) = 0.5, and threshold 0.7.
ChainScenario ==
  /\ grouper.returned
  /\ grouper.threshold = DefaultThreshold
  /\ Len(grouper.photos) = 3
  /\ CosSim(grouper.photos[1].embedding, grouper.photos[2].embedding) = 80
  /\ CosSim(grouper.photos[2].embedding, grouper.photos[3].embedding) = 75
  /\ CosSim(grouper.photos[1].embedding, grouper.photos[3].embedding) = 50
  /\ \A i \in 1..3 : HasEmbedding(grouper.photos[i])

\* C19 as stated: the scenario's call returns one group holding A, B and C and
\* an empty uniquePhotos.
C19_ScenarioGivesOneGroupOfThree ==
  ChainScenario =>
    /\ Len(grouper.result.groups) = 1
    /\ Range(Ids(grouper.result.groups[1].photos)) = Range(Ids(grouper.photos))
    /\ grouper.result.uniquePhotos = <<>>

\* C19 amended: the scenario's call returns one group holding A and B only,
\* with similarity 0.8, and uniquePhotos = [C].
C19_ScenarioGivesGroupOfTwoAndUnique ==
  ChainScenario =>
    /\ Len(grouper.result.groups) = 1
    /\ Range(Ids(grouper.result.groups[1].photos)) =
         {grouper.photos[1].id, grouper.photos[2].id}
    /\ grouper.result.groups[1].similarity = 80
    /\ grouper.result.uniquePhotos = <<grouper.photos[3]>>

\* The scenario's call has returned, with B the best photo of the group.
C19_Witness ==
  /\ ChainScenario
  /\ Len(grouper.result.groups) = 1
  /\ grouper.result.groups[1].photos[1] = grouper.photos[2]
  /\ Len(grouper.result.uniquePhotos) = 1

\* The input photos at positions i and j were returned in the same group.
SameGroup(i, j) ==
  \E g \in 1..Len(grouper.result.groups) :
    {grouper.photos[i].id, grouper.photos[j].id}
      \subseteq Range(Ids(grouper.result.groups[g].photos))

\* The photo at position i was an anchor: it has an embedding and no earlier
\* photo took it into its group.
IsAnchor(i) ==
  /\ HasEmbedding(grouper.photos[i])
  /\ \A k \in 1..(i - 1) : ~SameGroup(k, i)

\* The photo at position j was already assigned when the photo at i was processed.
AssignedBefore(j, i) == \E k \in 1..(i - 1) : IsAnchor(k) /\ k # j /\ SameGroup(k, j)

\* C20: an embedded photo B is in the group anchored at A if and only if B comes
\* after A in the input, B was not assigned before A was processed, and
\* sim(A, B) >= threshold; so every member has similarity >= threshold with
\* its anchor, whatever its similarity with the other members.
C20_MembershipByAnchorOnly ==
  grouper.returned =>
    \A i, j \in 1..Len(grouper.photos) :
      (i # j /\ IsAnchor(i) /\ HasEmbedding(grouper.photos[j])) =>
        (SameGroup(i, j) <=>
           /\ i < j
           /\ ~AssignedBefore(j, i)
           /\ CosSim(grouper.photos[i].embedding, grouper.photos[j].embedding)
                >= grouper.threshold)

\* A group whose anchor has two members, one with similarity equal to the
\* threshold, and the two members' similarity with each other is below it.
C20_Witness ==
  /\ grouper.returned
  /\ \E i, j, k \in 1..Len(grouper.photos) :
       /\ IsAnchor(i) /\ i < j /\ j < k
       /\ SameGroup(i, j) /\ SameGroup(i, k)
       /\ CosSim(grouper.photos[i].embedding, grouper.photos[k].embedding) = grouper.threshold
       /\ CosSim(grouper.photos[j].embedding, grouper.photos[k].embedding) < grouper.threshold

\* The photos of group number g of the result, and the one of them that comes
\* first in the input: the anchor the group was collected around.
MembersOf(g) == grouper.result.groups[g].photos

AnchorOf(g) ==
  LET ps == MembersOf(g)
  IN ps[CHOOSE a \in 1..Len(ps) : \A b \in 1..Len(ps) : InputIndex(ps[a]) <= InputIndex(ps[b])]

AnchorSimilarities(g) ==
  LET ps == MembersOf(g)
      anchor == AnchorOf(g)
  IN {CosSim(anchor.embedding, ps[b].embedding) : b \in {c \in 1..Len(ps) : ps[c] # anchor}}

RawNum(positive, negative) ==
  TotalSimilarity(positive, Len(positive)) * Len(negative)
    - TotalSimilarity(negative, Len(negative)) * Len(positive)

RawDen(positive, negative) == Len(positive) * Len(negative)

\* raw of the first pair <= raw of the second pair.
RawLeq(p1, n1, p2, n2) ==
  RawNum(p1, n1) * RawDen(p2, n2) <= RawNum(p2, n2) * RawDen(p1, n1)

\* C23: the quality analyzeImage returns is always an integer in 0..100, and
\* it is monotonic non-decreasing in raw = avgPos - avgNeg: against every
\* other pair of similarity lists, the pair with the lower or equal raw never
\* gets the higher score.
C23_ScoreBoundedAndMonotone ==
  scorer.returned =>
    /\ scorer.quality \in 0..100
    /\ scorer.scored =>
         \A pos \in PromptSimilarities, neg \in PromptSimilarities :
           LET q == analyzeImageQuality(scorer.embedding, scorer.qualityEmbeddings,
                                        pos, neg, FALSE)
           IN  /\ q \in 0..100
               /\ RawLeq(pos, neg, scorer.positive, scorer.negative)
                    => q <= scorer.quality
               /\ RawLeq(scorer.positive, scorer.negative, pos, neg)
                    => scorer.quality <= q

\* A scored call strictly inside the range, between a pair that scores lower
\* and a pair of a higher raw that is clamped to 100.
C23_Witness ==
  /\ scorer.returned
  /\ scorer.scored
  /\ scorer.quality \in 1..99
  /\ \E pos \in PromptSimilarities, neg \in PromptSimilarities :
       /\ ~RawLeq(scorer.positive, scorer.negative, pos, neg)
       /\ Quality(pos, neg) < scorer.quality
  /\ \E pos \in PromptSimilarities, neg \in PromptSimilarities :
       /\ ~RawLeq(pos, neg, scorer.positive, scorer.negative)
       /\ Quality(pos, neg) = 100
       /\ MathRound(15 * RawNum(pos, neg) + 100 * RawDen(pos, neg),
                    2 * RawDen(pos, neg)) > 100

\* The integer nearest to the rational num / den (den > 0), a half going up:
\* the n with n - 1/2 <= num / den < n + 1/2.
NearestInteger(num, den) ==
  CHOOSE n \in -2000..2000 :
    (2 * n - 1) * den <= 2 * num /\ 2 * num < (2 * n + 1) * den

\* clamp(round(((raw * 15 + 1) / 2) * 100), 0, 100) for raw = rawNum / (100 * rawDen):
\* ((raw * 15 + 1) / 2) * 100 = (15 * rawNum + 100 * rawDen) / (2 * rawDen).
CalibratedScore(rawNum, rawDen) ==
  LET n == NearestInteger(15 * rawNum + 100 * rawDen, 2 * rawDen)
  IN  IF n < 0 THEN 0 ELSE IF n > 100 THEN 100 ELSE n

\* C24: whenever analyzeImage scores an image (an embedding and the prompt
\* embeddings are given and the scoring does not throw), the quality equals
\* clamp(round(((raw * 15 + 1) / 2) * 100), 0, 100) with raw = mean similarity
\* to the positive prompts - mean similarity to the negative prompts; with
\* avgPos = 0.9 and avgNeg = 0.1 it is 100.
C24_ScoreIsCalibratedRaw ==
  (scorer.returned /\ scorer.scored) =>
    /\ scorer.quality = CalibratedScore(RawNum(scorer.positive, scorer.negative),
                                        RawDen(scorer.positive, scorer.negative))
    /\ ( /\ TotalSimilarity(scorer.positive, Len(scorer.positive))
              = 90 * Len(scorer.positive)
         /\ TotalSimilarity(scorer.negative, Len(scorer.negative))
              = 10 * Len(scorer.negative) )
         => scorer.quality = 100

\* The scenario: two positive prompts at 0.9, one negative prompt at 0.1.
C24_Witness ==
  /\ scorer.returned
  /\ scorer.scored
  /\ scorer.positive = <<90, 90>>
  /\ scorer.negative = <<10>>
  /\ scorer.quality = 100

\* ---- claims about the ingestion pipeline, every awaited step settling ----
\* The photos the regrouping of call c is given (addPhotos step 5).
NextPhotos(c) == Append(stateRef, PhotoData(newPhoto[c]))

\* What holds of photos without embedding in every state: quality 0 once
\* analysed and in the store; in uniquePhotos and in no group right after
\* their own Ingest; compared with no photo in any regrouping they are part
\* of, and in no group of its result.
FailedExtractionSafe ==
  /\ \A c \in Calls :
       (pc[c] \in {"regroup", "dispatch"} /\ ~HasEmbedding(newPhoto[c]))
         => newPhoto[c].quality = 0
  /\ \A i \in 1..Len(state.photos) :
       ~HasEmbedding(state.photos[i]) => state.photos[i].quality = 0
  /\ (lastAction.type = AddType /\ ~HasEmbedding(lastAction.photo))
       => /\ Occurrences(state.uniquePhotos, lastAction.photo.id) = 1
          /\ GroupedOccurrences(state, lastAction.photo.id) = 0
  /\ \A c \in Calls :
       pc[c] = "regroup" =>
         \A i \in 1..Len(NextPhotos(c)) :
           ~HasEmbedding(NextPhotos(c)[i])
             => NextPhotos(c)[i].id \notin ComparedIds(NextPhotos(c), DefaultThreshold)
  /\ \A c \in Calls :
       pc[c] = "dispatch" =>
         \A g \in 1..Len(regrouped[c].groups) :
           \A i \in 1..Len(regrouped[c].groups[g].photos) :
             HasEmbedding(regrouped[c].groups[g].photos[i])

\* Every file a call has started on (it has an id) is in photos or is the
\* file that a call is processing: none is dropped, whatever its extraction
\* and scoring did.
InFlight == {c \in Calls : pc[c] \in {"analyze", "regroup", "dispatch"}}

NoStartedFileDropped ==
  /\ Range(Ids(state.photos)) \cup {newPhoto[c].id : c \in InFlight} = 1..(nextId - 1)
  /\ Len(state.photos) + Cardinality(InFlight) = nextId - 1
  /\ \A c \in Calls : (pc[c] = "done") = (pc[c] \notin {"idle", "rejected"} /\ remaining[c] = 0)

\* Call c holds the photo with this id, whose extraction failed.
ExtractionFailed(c, id) ==
  /\ pc[c] = "analyze"
  /\ newPhoto[c].id = id
  /\ ~HasEmbedding(newPhoto[c])

\* C25: a file whose embedding extraction fails is still ingested: its Photo
\* has no embedding and quality 0, is in uniquePhotos (and in no group) after
\* its Ingest, is never compared with another photo, and the call goes on: it
\* ends with that photo in photos and every remaining file of the call ingested.
C25_FailedExtractionStillIngested ==
  /\ []FailedExtractionSafe
  /\ []NoStartedFileDropped
  /\ \A c \in Calls, id \in 1..MaxFiles :
       ExtractionFailed(c, id)
         ~> ( /\ pc[c] = "done"
              /\ remaining[c] = 0
              /\ \E i \in 1..Len(state.photos) :
                   /\ state.photos[i].id = id
                   /\ state.photos[i].embedding = NoEmbedding
                   /\ state.photos[i].quality = 0 )

\* One call of two files has ended, the other was never made: the first file's
\* extraction failed, the second file's did not, and both are in photos.
C25_Witness ==
  /\ \E c \in Calls : pc[c] = "done" /\ \A d \in Calls \ {c} : pc[d] = "idle"
  /\ Len(state.photos) = 2
  /\ state.photos[1].embedding = NoEmbedding
  /\ state.photos[1].quality = 0
  /\ HasEmbedding(state.photos[2])
  /\ state.photos[2].quality > 0

\* C26: whatever fails (extraction, scoring, the prompt-embedding
\* preparation), every addPhotos call that was given files ends with each of
\* its files a Photo in photos (NoStartedFileDropped: a call is done only with
\* all its files ingested), each with a quality in 0..100.
C26_EverySubmittedFileBecomesAPhoto ==
  /\ \A c \in Calls : (pc[c] # "idle") ~> (pc[c] = "done")
  /\ [](\A i \in 1..Len(state.photos) : state.photos[i].quality \in 0..100)

\* ---- claims about getModels ----
\* C27: over any interleaving of getModels calls, first ones included, each of
\* the four loads (processor, vision model, tokenizer, text model) is started
\* at most once, and every caller waits for and receives the instances of
\* that one load.
C27_ModelsLoadedOnce ==
  /\ \A kind \in Kinds : loader.loads[kind] <= 1
  /\ \A k \in Callers :
       loader.caller[k] \in {"awaiting", "returned"}
         => \A kind \in Kinds : loader.awaited[k][kind] = 1 /\ loader.instance[kind] = 1
  /\ \A k1 \in Callers, k2 \in Callers :
       (loader.caller[k1] = "returned" /\ loader.caller[k2] = "returned")
         => loader.awaited[k1] = loader.awaited[k2]

\* Every caller has received the models, and calls were made while another
\* caller was still waiting for the loads.
C27_Witness ==
  /\ \A k \in Callers : loader.caller[k] = "returned"
  /\ loader.overlapped
  /\ \A kind \in Kinds : loader.loads[kind] = 1

\* ---- claims about the prompt embeddings of the session ----
\* C28: prepareQualityEmbeddings is called exactly once in a session, on
\* mount, however many addPhotos calls are made and photos processed; its
\* result, once set, is never replaced, and every photo is processed and
\* scored with that result in place and no preparation pending.
C28_PromptEmbeddingsPreparedOnce ==
  /\ [](prepareCalls = 1)
  /\ [](\A c \in Calls :
          Running(c) => (qualityEmbeddings = "ready" /\ ~isPreparingEmbeddings))
  /\ [][qualityEmbeddings = "ready" => qualityEmbeddings' = "ready"]_vars

\* Two addPhotos calls have each ingested a scored photo, and the
\* preparation has run once.
C28_Witness ==
  /\ \A c \in Calls : pc[c] = "done"
  /\ Len(state.photos) = 2
  /\ \A i \in 1..2 : state.photos[i].quality > 0
  /\ prepareCalls = 1
  /\ qualityEmbeddings = "ready"

\* ---- claims about the photos list ----
\* The step is the Ingest of call c: its ADD_PHOTO_AND_UPDATE_GROUPS dispatch.
IsIngest(c) == pc[c] = "dispatch" /\ pc'[c] # "dispatch"

\* C29: photos is append-only.  The Ingest of a call puts exactly that call's
\* new photo at the end and keeps the photos already present, in their order,
\* each with its id, embedding, quality and date; every other transition
\* (commands, undo, redo, the steps of addPhotos before the dispatch, the
\* effects) keeps the list of photos the same but for the selected flags.
C29_PhotosAppendOnly ==
  [][ /\ \A c \in Calls :
           IsIngest(c) => RefPhotos(state') = Append(RefPhotos(state), PhotoData(newPhoto[c]))
      /\ (\A c \in Calls : ~IsIngest(c)) => RefPhotos(state') = RefPhotos(state)
    ]_vars

\* The photo with the higher id was ingested first, the other after it, and
\* an undo has since been applied: the list is in order of ingestion.
C29_Witness ==
  /\ Ids(state.photos) = <<2, 1>>
  /\ lastAction.type = "UNDO"

\* ---- claims about the selection and the history pointer ----
\* C30: in every reachable state with a non-empty history, the pointer
\* designates an entry of the history and selectedPhotos is that entry's
\* selectedPhotos, the same ids in the same order.
C30_SelectionIsDesignatedSnapshot ==
  Len(state.history) > 0 =>
    /\ state.currentHistoryIndex \in 0..(Len(state.history) - 1)
    /\ state.selectedPhotos = state.history[state.currentHistoryIndex + 1].selectedPhotos

\* After an undo: the pointer is not on the last entry, and the selection is
\* the designated entry's, not the last entry's.
C30_Witness ==
  /\ lastAction.type = "UNDO"
  /\ state.currentHistoryIndex + 1 < Len(state.history)
  /\ Len(state.selectedPhotos) > 0
  /\ state.selectedPhotos = state.history[state.currentHistoryIndex + 1].selectedPhotos
  /\ state.selectedPhotos # state.history[Len(state.history)].selectedPhotos

\* ---- claims about what the reducer leaves alone ----
\* The step keeps the history entries up to the pointer as they were.
KeepsEntriesUpToPointer ==
  /\ Len(state'.history) >= state.currentHistoryIndex + 1
  /\ \A i \in 1..(state.currentHistoryIndex + 1) : state'.history[i] = state.history[i]

\* C31: ToggleSelect, SelectAllInGroup, DeselectAllInGroup, SelectAll,
\* DeselectAll, and Ingest on non-empty photos, leave the history entries up
\* to the old pointer as they were, with the selections they hold; Undo and
\* Redo leave the whole history as it was.
C31_KeptHistoryEntriesUnchanged ==
  [][ /\ lastAction'.type \in {"UNDO", "REDO"} => state'.history = state.history
      /\ lastAction'.type \in SelectionActionTypes \ {AddType} => KeepsEntriesUpToPointer
      /\ (lastAction'.type = AddType /\ Len(state.photos) > 0) => KeepsEntriesUpToPointer
    ]_vars

\* A toggle has recorded a third entry; the two entries before it hold two
\* different selections, the second of them not the current one.
C31_Witness ==
  /\ lastAction.type = ToggleType
  /\ state.currentHistoryIndex = 2
  /\ Len(state.history) = 3
  /\ state.history[1].selectedPhotos # state.history[2].selectedPhotos
  /\ state.history[2].selectedPhotos # state.selectedPhotos

\* C32: ToggleSelect, SelectAllInGroup, DeselectAllInGroup, SelectAll,
\* DeselectAll, Undo and Redo leave groups and uniquePhotos as they were, and
\* photos too but for the selected flags; so an Undo that steps back over an
\* Ingest restores the earlier selection and keeps the Ingest's photos, groups
\* and uniquePhotos.
C32_CommandsKeepGrouping ==
  [][ lastAction'.type \in (SelectionActionTypes \ {AddType}) \cup {"UNDO", "REDO"}
        => /\ state'.groups = state.groups
           /\ state'.uniquePhotos = state.uniquePhotos
           /\ RefPhotos(state') = RefPhotos(state)
    ]_vars

\* An Undo has stepped back over the Ingest of the second photo: the entry
\* after the pointer is that Ingest's auto-selection, the selection is the
\* earlier one, without the second photo, which is still in photos and in the
\* grouping.
C32_Witness ==
  /\ lastAction.type = "UNDO"
  /\ Len(state.photos) = 2
  /\ state.currentHistoryIndex = 0
  /\ Len(state.history) = 2
  /\ state.history[2].selectedPhotos = AutoSelect(state.groups, state.uniquePhotos)
  /\ state.selectedPhotos = state.history[1].selectedPhotos
  /\ ~Includes(state.selectedPhotos, state.photos[2].id)
  /\ Occurrences(state.uniquePhotos, state.photos[2].id)
       + GroupedOccurrences(state, state.photos[2].id) = 1

\* ---- claims about the ids in a selection ----
NoRepeatedId(ids) ==
  \A i \in 1..Len(ids), j \in 1..Len(ids) : ids[i] = ids[j] => i = j

\* C33: in every reachable state neither selectedPhotos nor the
\* selectedPhotos of any history entry holds an id more than once.
C33_SelectionsHoldNoIdTwice ==
  /\ NoRepeatedId(state.selectedPhotos)
  /\ \A i \in 1..Len(state.history) : NoRepeatedId(state.history[i].selectedPhotos)

\* SelectAllInGroup has added to a selection that already held a photo of the
\* group: the selection holds every photo of the group once.
C33_Witness ==
  /\ lastAction.type = "SELECT_ALL_IN_GROUP"
  /\ state.currentHistoryIndex >= 1
  /\ \E g \in 1..Len(state.groups) :
       /\ state.groups[g].id = lastAction.groupId
       /\ Includes(state.history[state.currentHistoryIndex].selectedPhotos,
                   state.groups[g].photos[1].id)
       /\ \A i \in 1..Len(state.groups[g].photos) :
            Cardinality({k \in 1..Len(state.selectedPhotos) :
                           state.selectedPhotos[k] = state.groups[g].photos[i].id}) = 1
  /\ state.history[state.currentHistoryIndex + 1].selectedPhotos = state.selectedPhotos
  /\ Len(state.selectedPhotos) > Len(state.history[state.currentHistoryIndex].selectedPhotos)

\* ---- more claims about a direct call of groupSimilarPhotos ----
\* The photos that stand for themselves in a result: the embedded photos of
\* uniquePhotos and, of each group, the member that comes first in the input.
Representatives ==
  {grouper.result.uniquePhotos[i] :
     i \in {k \in 1..Len(grouper.result.uniquePhotos) :
              HasEmbedding(grouper.result.uniquePhotos[k])}}
    \cup {AnchorOf(g) : g \in 1..Len(grouper.result.groups)}

\* C34: in every result, any two distinct photos that are each an embedded
\* photo of uniquePhotos or the anchor of a group have a similarity strictly
\* below the threshold (the similarity is symmetric).
C34_RepresentativesAreDissimilar ==
  grouper.returned =>
    LET reps == Representatives
    IN \A p \in reps, q \in reps :
         p.id # q.id =>
           /\ CosSim(p.embedding, q.embedding) = CosSim(q.embedding, p.embedding)
           /\ CosSim(p.embedding, q.embedding) < grouper.threshold

\* A group and two embedded unique photos, the anchor of the group at
\* similarity 0.8 with one of them, below the threshold of the call.
C34_Witness ==
  /\ grouper.returned
  /\ Len(grouper.result.groups) = 1
  /\ Cardinality(Representatives) = 3
  /\ \E i \in 1..Len(grouper.result.uniquePhotos) :
       /\ HasEmbedding(grouper.result.uniquePhotos[i])
       /\ CosSim(AnchorOf(1).embedding, grouper.result.uniquePhotos[i].embedding) = 80

\* C35: for every threshold up to 1 and every input order, two embedded
\* photos with the same embedding (similarity 1 with each other, the same
\* similarity with every other photo) are in the same group of the result:
\* never one in a group and the other in uniquePhotos, never in two groups,
\* never both in uniquePhotos.
C35_IdenticalEmbeddingsShareGroup ==
  (grouper.returned /\ grouper.threshold <= 100) =>
    \A i \in 1..Len(grouper.photos), j \in 1..Len(grouper.photos) :
      ( /\ i # j
        /\ HasEmbedding(grouper.photos[i])
        /\ grouper.photos[i].embedding = grouper.photos[j].embedding )
        => /\ CosSim(grouper.photos[i].embedding, grouper.photos[j].embedding) = 100
           /\ SameGroup(i, j)
           /\ \A k \in 1..Len(grouper.result.uniquePhotos) :
                grouper.result.uniquePhotos[k].id
                  \notin {grouper.photos[i].id, grouper.photos[j].id}

\* Two photos with the same embedding, apart in the input, were both taken
\* into the group of an earlier photo with another embedding.
C35_Witness ==
  /\ grouper.returned
  /\ Len(grouper.photos) = 4
  /\ HasEmbedding(grouper.photos[2])
  /\ grouper.photos[2].embedding = grouper.photos[4].embedding
  /\ grouper.photos[1].embedding # grouper.photos[2].embedding
  /\ grouper.photos[3].embedding # grouper.photos[2].embedding
  /\ SameGroup(1, 2)
  /\ SameGroup(2, 4)
  /\ ~SameGroup(1, 3)

\* ---- claims about runs of Undo and Redo ----
\* The state after n UNDO dispatches, after n REDO dispatches.
RECURSIVE UndoTimes(_, _)
UndoTimes(s, n) == IF n = 0 THEN s ELSE UndoTimes(reducer(s, [type |-> "UNDO"]), n - 1)

RECURSIVE RedoTimes(_, _)
RedoTimes(s, n) == IF n = 0 THEN s ELSE RedoTimes(reducer(s, [type |-> "REDO"]), n - 1)

\* C36: from every reachable state with currentHistoryIndex = k >= 0, k Undos
\* reach index 0 with the first entry's selection, one more Undo changes
\* nothing, and k Redos from there give back the selection and the index of
\* the start (the whole state, in fact); the history is the same after every
\* one of these steps.
C36_UndoAllRedoAllReturns ==
  state.currentHistoryIndex >= 0 =>
    LET k == state.currentHistoryIndex
        bottom == UndoTimes(state, k)
        back == RedoTimes(bottom, k)
    IN /\ bottom.currentHistoryIndex = 0
       /\ bottom.selectedPhotos = state.history[1].selectedPhotos
       /\ reducer(bottom, [type |-> "UNDO"]) = bottom
       /\ back.selectedPhotos = state.selectedPhotos
       /\ back.currentHistoryIndex = k
       /\ back = state
       /\ \A n \in 0..k : /\ UndoTimes(state, n).history = state.history
                          /\ UndoTimes(state, n).currentHistoryIndex = k - n
                          /\ RedoTimes(bottom, n).history = state.history
                          /\ RedoTimes(bottom, n).currentHistoryIndex = n

\* A Redo has brought the pointer back to the third of three entries that
\* hold three different selections, a redoable entry having existed before:
\* two Undos and two Redos apply from here.
C36_Witness ==
  /\ lastAction.type = "REDO"
  /\ state.currentHistoryIndex = 2
  /\ Len(state.history) = 3
  /\ state.history[1].selectedPhotos # state.history[2].selectedPhotos
  /\ state.history[2].selectedPhotos # state.history[3].selectedPhotos
  /\ state.history[1].selectedPhotos # state.history[3].selectedPhotos
  /\ UndoTimes(state, 2).selectedPhotos = state.history[1].selectedPhotos
  /\ RedoTimes(UndoTimes(state, 2), 2).selectedPhotos = state.selectedPhotos

\* ---- claims about addPhotos and the prompt embeddings ----
\* The prompt embeddings are not available: the preparation is still running,
\* or it has failed and qualityEmbeddings stays null.
EmbeddingsUnavailable == isPreparingEmbeddings \/ qualityEmbeddings = "null"

PreparationFailed == ~isPreparingEmbeddings /\ qualityEmbeddings = "null"

\* C37: an addPhotos call made while the prompt embeddings are not available
\* returns at once: it dispatches nothing, starts on none of its files, leaves
\* the store and isLoading as they are, and never resumes.  A failed
\* preparation stays failed, so after it no call is ever inside its loop and
\* photos stays empty.
C37_CallWithoutEmbeddingsDropsFiles ==
  /\ [][ \A c \in Calls :
           /\ (pc[c] = "idle" /\ pc'[c] # "idle" /\ EmbeddingsUnavailable)
                => /\ pc'[c] = "rejected"
                   /\ UNCHANGED <<state, lastAction, isLoading, remaining, newPhoto,
                                  regrouped, nextId>>
           /\ pc[c] = "rejected" => pc'[c] = "rejected"
       ]_vars
  /\ [][PreparationFailed => PreparationFailed']_vars
  /\ [](PreparationFailed =>
          /\ Len(state.photos) = 0
          /\ ~isLoading
          /\ \A c \in Calls : pc[c] \in {"idle", "rejected"})

\* The preparation has failed, both addPhotos calls were made without prompt
\* embeddings and dropped, and nothing was ingested.
C37_Witness ==
  /\ PreparationFailed
  /\ \A c \in Calls : pc[c] = "rejected"
  /\ Len(state.photos) = 0
  /\ ~isLoading

\* ---- claims about isLoading ----
\* C38: under any interleaving of overlapping addPhotos calls, isLoading is
\* true in every state in which an accepted call is still processing its files.
C38_LoadingWhileAnyCallRuns ==
  \A c \in Calls : Running(c) => isLoading

\* ---- more claims about getModels ----
LoadFailed == \E kind \in Kinds : loader.promise[kind] = "rejected"

\* C39: a load that has failed stays failed in its variable and no load is
\* ever started again; from then on no getModels call returns the models:
\* every caller that waits, whether it called before or after the failure,
\* ends with the rejection.
C39_FailedLoadStaysCached ==
  /\ [][ /\ \A kind \in Kinds :
              loader.promise[kind] = "rejected" => loader'.promise[kind] = "rejected"
         /\ LoadFailed => loader'.loads = loader.loads
         /\ LoadFailed =>
              \A k \in Callers :
                (loader.caller[k] # loader'.caller[k])
                  => loader'.caller[k] \in {"awaiting", "threw"}
       ]_vars
  /\ [](LoadFailed => \A k \in Callers : loader.caller[k] # "returned")
  /\ [](\A kind \in Kinds : loader.loads[kind] <= 1)

\* The tokenizer load has failed and the three others have succeeded; every
\* caller has got the rejection, and each load was started once.
C39_Witness ==
  /\ loader.promise["tokenizer"] = "rejected"
  /\ \A kind \in Kinds \ {"tokenizer"} : loader.promise[kind] = "fulfilled"
  /\ \A k \in Callers : loader.caller[k] = "threw"
  /\ \A kind \in Kinds : loader.loads[kind] = 1

\* ---- claims about the end of an addPhotos call ----
\* The statuses in which a call is not processing files.
Quiet == {"idle", "rejected", "done"}

\* Call c is at the head of its loop with n files to go, k photos are in the
\* store and none is being processed, and every other call has the status
\* others gives it, which is a quiet one.
AloneAtLoopHead(c, n, k, others) ==
  /\ pc[c] = "extract"
  /\ remaining[c] = n
  /\ Len(state.photos) = k
  /\ nextId = k + 1
  /\ \A d \in Calls \ {c} : pc[d] = others[d]

\* Call c has ended; if the other calls still have the statuses they had, so
\* that none has run meanwhile, photos holds after its first k photos the n
\* photos of c's files, in the order of the files (ids are given in that
\* order), and the history has one more entry per file.
EndedWithItsFiles(c, n, k, others) ==
  /\ pc[c] = "done"
  /\ remaining[c] = 0
  /\ ~isLoading
  /\ (\A d \in Calls \ {c} : pc[d] = others[d])
       => /\ Len(state.photos) = k + n
          /\ \A i \in 1..n : state.photos[k + i].id = k + i
          /\ Len(state.history) = k + n
          /\ state.currentHistoryIndex = k + n - 1

\* C40: every awaited call settling, every accepted addPhotos call ends, and
\* the step that ends it sets isLoading to false; when no other call overlaps
\* it, it has appended one Photo per file to photos, in the order of the
\* files, each by one Ingest that recorded one history entry.
C40_AcceptedCallFinishes ==
  /\ \A c \in Calls : Running(c) ~> (pc[c] = "done")
  /\ [][\A c \in Calls : (pc[c] # "done" /\ pc'[c] = "done") => ~isLoading']_vars
  /\ \A c \in Calls, n \in 1..MaxFiles, k \in 0..MaxFiles :
       \A others \in [Calls \ {c} -> Quiet] :
         AloneAtLoopHead(c, n, k, others) ~> EndedWithItsFiles(c, n, k, others)

\* One call of two files has ended and the other call was never made: the
\* two photos are there in the order of the files, with two history entries.
C40_Witness ==
  /\ \E c \in Calls : pc[c] = "done" /\ \A d \in Calls \ {c} : pc[d] = "idle"
  /\ Ids(state.photos) = <<1, 2>>
  /\ Len(state.history) = 2
  /\ state.currentHistoryIndex = 1
  /\ ~isLoading

====
